---- MODULE Spec2Model ----
(***************************************************************************)
(* A model of the shell of src/main.py: the redirection extractor          *)
(* (handle_redirects), the tokenizer (shlex.split), the path resolver      *)
(* (find_executable), the completion engine (find_completions, complete)   *)
(* and the REPL loop with its builtin dispatch (main).                     *)
(*                                                                         *)
(* A Python string is a sequence of one-character strings; positions in    *)
(* the operators below are 0-based, as in the source.                      *)
(***************************************************************************)
EXTENDS Integers, Sequences, FiniteSets, TLC

\* ------------------------------------------------------------------------
\* Strings
\* ------------------------------------------------------------------------

\* Python's None, distinct from every string (its only element is not a character).
None == <<"None">>

\* The characters of the model in code-point order (str comparison, list.sort).
Alphabet ==
  <<"\t", " ", "\"", "'", "+", "-", "/", "0", "1", "2", "3", "4", "5", "6", "7",
    "8", "9", ":", ">", "\\", "_",
    "a", "b", "c", "d", "e", "f", "g", "h", "i", "l", "n", "o", "p", "q",
    "r", "s", "t", "u", "w", "x", "y", "z", "~">>

Ord(c) == CHOOSE i \in 1..Len(Alphabet) : Alphabet[i] = c

\* s[a:b]
Slice(s, a, b) == SubSeq(s, a + 1, b)

\* s.startswith(w, i)
HasAt(s, i, w) == i + Len(w) <= Len(s) /\ SubSeq(s, i + 1, i + Len(w)) = w

\* s.startswith(p)
StartsWith(s, p) == HasAt(s, 0, p)

\* a < b for str
StrLess(a, b) ==
  \/ Len(a) < Len(b) /\ SubSeq(b, 1, Len(a)) = a
  \/ \E i \in 1..Len(a) :
       /\ i <= Len(b)
       /\ SubSeq(a, 1, i - 1) = SubSeq(b, 1, i - 1)
       /\ Ord(a[i]) < Ord(b[i])

\* the regular expression class \s, and str.strip()'s whitespace
IsWs(c) == c \in {" ", "\t"}

\* s.strip()
Strip(s) ==
  LET nonws == {i \in 1..Len(s) : ~IsWs(s[i])}
  IN  IF nonws = {} THEN <<>>
      ELSE SubSeq(s, CHOOSE i \in nonws : \A j \in nonws : i <= j,
                     CHOOSE i \in nonws : \A j \in nonws : i >= j)

\* sep.join(words)
RECURSIVE JoinWith(_, _)
JoinWith(words, sep) ==
  IF words = <<>> THEN <<>>
  ELSE IF Len(words) = 1 THEN words[1]
  ELSE words[1] \o sep \o JoinWith(Tail(words), sep)

\* ------------------------------------------------------------------------
\* handle_redirects
\* ------------------------------------------------------------------------

\* the end of the whitespace run that starts at i (a greedy \s* from i)
WsRunEnd(s, i) ==
  CHOOSE j \in i..Len(s) :
    /\ \A x \in i..(j - 1) : IsWs(s[x + 1])
    /\ (j = Len(s) \/ ~IsWs(s[j + 1]))

\* length of the operator alternative matched at j, 0 when none matches
OpLen(s, j, ops) ==
  IF \E n \in 1..Len(ops) : HasAt(s, j, ops[n])
  THEN Len(ops[CHOOSE n \in 1..Len(ops) :
                 /\ HasAt(s, j, ops[n])
                 /\ \A m \in 1..(n - 1) : ~HasAt(s, j, ops[m])])
  ELSE 0

\* (?:\s+)(OP)(?:\s+)(.  matched from k: the position where group 3 starts,
\* or -1.  The first \s+ must run up to the operator; the second one is
\* greedy and gives back one character only when nothing else follows it.
TargetStart(s, k, ops) ==
  LET \* the second whitespace run, from e, ends at w0
      AfterSecondRun(e, w0) ==
        IF w0 < Len(s) THEN w0
        ELSE IF w0 - e >= 2 THEN Len(s) - 1
        ELSE -1
      \* the operator matched at j ends at e (e = j when none matched)
      AfterOperator(j, e) ==
        IF e = j THEN -1
        ELSE IF e >= Len(s) \/ ~IsWs(s[e + 1]) THEN -1
        ELSE AfterSecondRun(e, WsRunEnd(s, e))
      \* the first whitespace run ends at j
      AfterFirstRun(j) == AfterOperator(j, j + OpLen(s, j, ops))
  IN  IF k >= Len(s) \/ ~IsWs(s[k + 1]) THEN -1
      ELSE AfterFirstRun(WsRunEnd(s, k))

\* a failed re.search
NoMatch == [ok |-> FALSE, k |-> 0, w |-> 0, g1 |-> <<>>, g3 |-> <<>>]

\* re.search with the lazy group 1 (.*?): the leftmost k where the rest matches
SearchOp(s, ops) ==
  LET Leftmost(ts) ==
        IF \A k \in DOMAIN ts : ts[k] = -1 THEN NoMatch
        ELSE [NoMatch EXCEPT
                !.ok = TRUE,
                !.k = CHOOSE k \in DOMAIN ts :
                        ts[k] # -1 /\ \A y \in 0..(k - 1) : ts[y] = -1,
                !.w = ts[CHOOSE k \in DOMAIN ts :
                           ts[k] # -1 /\ \A y \in 0..(k - 1) : ts[y] = -1]]
  IN  Leftmost([k \in 0..Len(s) |-> TargetStart(s, k, ops)])

\* (?:\s+2>>.*|$|\s+2>.*|$) matches at t
StdoutTailAt(s, t) ==
  \/ t = Len(s)
  \/ t < Len(s) /\ IsWs(s[t + 1]) /\ HasAt(s, WsRunEnd(s, t), <<"2", ">">>)

\* r'(.*?)(?:\s+)(OP)(?:\s+)(.+?)(?:\s+2>>.*|$|\s+2>.*|$)': groups 1 and 3
StdoutSearch(s, ops) ==
  LET Groups(m) ==
        IF ~m.ok THEN NoMatch
        ELSE [m EXCEPT
                !.g1 = Slice(s, 0, m.k),
                !.g3 = Slice(s, m.w,
                             CHOOSE t \in (m.w + 1)..Len(s) :
                               /\ StdoutTailAt(s, t)
                               /\ \A y \in (m.w + 1)..(t - 1) : ~StdoutTailAt(s, y))]
  IN  Groups(SearchOp(s, ops))

\* r'(.*?)(?:\s+)(OP)(?:\s+)(.+)$': groups 1 and 3
StderrSearch(s, ops) ==
  LET Groups(m) ==
        IF ~m.ok THEN NoMatch
        ELSE [m EXCEPT !.g1 = Slice(s, 0, m.k), !.g3 = Slice(s, m.w, Len(s))]
  IN  Groups(SearchOp(s, ops))

StdoutAppendOps == << <<"1", ">", ">">>, <<">", ">">> >>
StdoutOps       == << <<"1", ">">>, <<">">> >>
StderrAppendOps == << <<"2", ">", ">">> >>
StderrOps       == << <<"2", ">">> >>

handle_redirects(command_str) ==
  LET \* out, err: the stdout and the stderr match that was taken, if any
      Result(out, err, append_stdout, append_stderr) ==
        [cmd |-> IF out.ok THEN out.g1
                 ELSE IF err.ok THEN err.g1
                 ELSE command_str,
         stdout_file |-> IF out.ok THEN out.g3 ELSE None,
         stderr_file |-> IF err.ok THEN err.g3 ELSE None,
         append_stdout |-> append_stdout,
         append_stderr |-> append_stderr]
      \* the non-append pattern is searched only when the append one failed
      Taken(append_match, match) ==
        IF append_match.ok THEN append_match ELSE match
      Matched(stdout_append_match, stdout_match,
              stderr_append_match, stderr_match) ==
        Result(Taken(stdout_append_match, stdout_match),
               Taken(stderr_append_match, stderr_match),
               stdout_append_match.ok, stderr_append_match.ok)
  IN  Matched(StdoutSearch(command_str, StdoutAppendOps),
              StdoutSearch(command_str, StdoutOps),
              StderrSearch(command_str, StderrAppendOps),
              StderrSearch(command_str, StderrOps))

\* ------------------------------------------------------------------------
\* parse_command (shlex.split)
\* ------------------------------------------------------------------------

IsQuote(c)  == c \in {"'", "\""}
IsEscape(c) == c = "\\"

\* shlex.read_token in posix mode with whitespace_split, run to the end of the
\* input: st is the lexer state (" ", "a", a quote or the escape character),
\* est the state to return to after an escape, tok the token being built,
\* q whether it was quoted, acc the tokens so far.  ok is FALSE where shlex
\* raises ValueError (no closing quotation, no escaped character).
RECURSIVE ShlexRun(_, _, _, _, _, _, _)
ShlexRun(s, i, st, est, tok, q, acc) ==
  LET eof == i >= Len(s)
      c   == s[i + 1]
      emitted == IF tok # <<>> \/ q THEN Append(acc, tok) ELSE acc
  IN  IF st = " " THEN
        IF eof THEN [ok |-> TRUE, args |-> acc]
        ELSE IF IsWs(c) THEN ShlexRun(s, i + 1, " ", est, <<>>, FALSE, acc)
        ELSE IF IsEscape(c) THEN ShlexRun(s, i + 1, c, "a", <<>>, FALSE, acc)
        ELSE IF IsQuote(c) THEN ShlexRun(s, i + 1, c, est, <<>>, FALSE, acc)
        ELSE ShlexRun(s, i + 1, "a", est, <<c>>, FALSE, acc)
      ELSE IF IsQuote(st) THEN
        IF eof THEN [ok |-> FALSE, args |-> acc]
        ELSE IF c = st THEN ShlexRun(s, i + 1, "a", est, tok, TRUE, acc)
        ELSE IF IsEscape(c) /\ st = "\"" THEN ShlexRun(s, i + 1, c, st, tok, TRUE, acc)
        ELSE ShlexRun(s, i + 1, st, est, Append(tok, c), TRUE, acc)
      ELSE IF IsEscape(st) THEN
        IF eof THEN [ok |-> FALSE, args |-> acc]
        ELSE IF IsQuote(est) /\ c # st /\ c # est
             THEN ShlexRun(s, i + 1, est, est, tok \o <<st, c>>, q, acc)
        ELSE ShlexRun(s, i + 1, est, est, Append(tok, c), q, acc)
      ELSE \* st = "a"
        IF eof THEN [ok |-> TRUE, args |-> emitted]
        ELSE IF IsWs(c) THEN ShlexRun(s, i + 1, " ", est, <<>>, FALSE, emitted)
        ELSE IF IsQuote(c) THEN ShlexRun(s, i + 1, c, est, tok, q, acc)
        ELSE IF IsEscape(c) THEN ShlexRun(s, i + 1, c, "a", tok, q, acc)
        ELSE ShlexRun(s, i + 1, "a", est, Append(tok, c), q, acc)

parse_command(command_str) == ShlexRun(command_str, 0, " ", " ", <<>>, FALSE, <<>>)

\* ------------------------------------------------------------------------
\* The filesystem and the environment (os, os.path)
\* ------------------------------------------------------------------------

\* The filesystem is a function from absolute paths to entries; the paths of
\* the model have no ".", ".." or doubled "/" components and no symbolic links.
VARIABLES
  fs,        \* absolute path -> [kind, x, r, w, content]
  cwd,       \* os.getcwd()
  path_env,  \* os.environ.get("PATH", "")
  home_env   \* os.environ.get("HOME", "")

DirEntry(x, r, w) == [kind |-> "dir", x |-> x, r |-> r, w |-> w, content |-> <<>>]
FileEntry(x, c)   == [kind |-> "file", x |-> x, r |-> TRUE, w |-> TRUE, content |-> c]
Missing           == [kind |-> "none", x |-> FALSE, r |-> FALSE, w |-> FALSE, content |-> <<>>]

\* s.rfind("/") + 1
AfterLastSlash(s) ==
  LET sl == {i \in 1..Len(s) : s[i] = "/"}
  IN  IF sl = {} THEN 0 ELSE CHOOSE i \in sl : \A j \in sl : i >= j

\* s.rstrip("/")
RECURSIVE RStripSlash(_)
RStripSlash(s) ==
  IF s # <<>> /\ s[Len(s)] = "/" THEN RStripSlash(SubSeq(s, 1, Len(s) - 1)) ELSE s

\* os.path.dirname
Dirname(p) ==
  LET Stripped(head, h) == IF head # <<>> /\ h # <<>> THEN h ELSE head
      OfHead(head) == Stripped(head, RStripSlash(head))
  IN  OfHead(SubSeq(p, 1, AfterLastSlash(p)))

\* os.path.basename
Basename(p) == SubSeq(p, AfterLastSlash(p) + 1, Len(p))

\* os.path.join(a, b)
PathJoin(a, b) ==
  IF b # <<>> /\ b[1] = "/" THEN b
  ELSE IF a = <<>> \/ a[Len(a)] = "/" THEN a \o b
  ELSE a \o <<"/">> \o b

\* the absolute path a path names in working directory d; None for the empty path
AbsPath(d, p) ==
  LET Normal(q) == IF q = <<>> THEN <<"/">> ELSE q
  IN  IF p = <<>> THEN None ELSE Normal(RStripSlash(PathJoin(d, p)))

\* the entry a path names (stat)
Lookup(f, d, p) ==
  LET Entry(a) == IF a \in DOMAIN f THEN f[a] ELSE Missing
  IN  Entry(AbsPath(d, p))

IsFile(f, d, p) == Lookup(f, d, p).kind = "file"
IsDir(f, d, p)  == Lookup(f, d, p).kind = "dir"
Exists(f, d, p) == Lookup(f, d, p).kind # "none"
\* os.access(p, os.X_OK)
AccessX(f, d, p) == Lookup(f, d, p).x

\* os.listdir(p) of a directory that can be listed, as a set: the order of the
\* names is the operating system's
ListDir(f, d, p) ==
  {Basename(q) : q \in {q \in DOMAIN f : q # <<"/">> /\ Dirname(q) = AbsPath(d, p)}}

\* s.split(":")
RECURSIVE SplitColon(_)
SplitColon(s) ==
  LET cs == {i \in 1..Len(s) : s[i] = ":"}
  IN  IF cs = {} THEN <<s>>
      ELSE LET i == CHOOSE x \in cs : \A y \in cs : x <= y
           IN  <<SubSeq(s, 1, i - 1)>> \o SplitColon(SubSeq(s, i + 1, Len(s)))

\* ------------------------------------------------------------------------
\* find_executable
\* ------------------------------------------------------------------------

RECURSIVE FirstExecutable(_, _, _, _)
FirstExecutable(f, d, paths, command) ==
  IF paths = <<>> THEN None
  ELSE LET full_path == PathJoin(paths[1], command)
       IN  IF IsFile(f, d, full_path) /\ AccessX(f, d, full_path) THEN full_path
           ELSE FirstExecutable(f, d, Tail(paths), command)

find_executable(f, d, penv, command) ==
  FirstExecutable(f, d, SplitColon(penv), command)

\* ------------------------------------------------------------------------
\* find_completions
\* ------------------------------------------------------------------------

W_echo == <<"e", "c", "h", "o">>
W_exit == <<"e", "x", "i", "t">>
W_type == <<"t", "y", "p", "e">>
W_pwd  == <<"p", "w", "d">>
W_cd   == <<"c", "d">>

\* builtins = ["echo", "exit", "type", "pwd", "cd"]
builtins == <<W_echo, W_exit, W_type, W_pwd, W_cd>>

InList(x, l) == \E i \in 1..Len(l) : l[i] = x

\* a slip: the builtin names are not filtered by the prefix
FilterPrefix_NoFilter(l, text) == l

\* [m for m in l if m.startswith(text)]
FilterPrefix(l, text) == SelectSeq(l, LAMBDA m : StartsWith(m, text))

\* the names the loop over the PATH directories appends to executables: a name
\* is appended once, however many directories hold it; a directory that is
\* not a directory, or that os.listdir cannot list, adds nothing
ExecutableNames(f, d, penv, text) ==
  LET InDirectory(path) ==
        IF IsDir(f, d, path) /\ Lookup(f, d, path).r
        THEN {filename \in ListDir(f, d, path) :
                /\ StartsWith(filename, text)
                /\ \E full_path \in {PathJoin(path, filename)} :
                     IsFile(f, d, full_path) /\ AccessX(f, d, full_path)}
        ELSE {}
      InPaths(paths) == UNION {InDirectory(paths[n]) : n \in 1..Len(paths)}
  IN  InPaths(SplitColon(penv))

RECURSIVE SetToSeq(_)
SetToSeq(S) ==
  IF S = {} THEN <<>>
  ELSE LET x == CHOOSE y \in S : TRUE IN <<x>> \o SetToSeq(S \ {x})

\* matches after matches.extend(executables) and matches.sort()
Matches(f, d, penv, text) ==
  SortSeq(FilterPrefix(builtins, text) \o SetToSeq(ExecutableNames(f, d, penv, text)),
          StrLess)

\* a slip: the common prefix is never extended beyond the typed text
CommonEnd_NoExtension(matches, i) == i

\* a slip: the common prefix is the whole first match
CommonEnd_WholeFirstMatch(matches, i) == Len(matches[1])

\* the while loop of find_completions: the first index from i where the
\* matches do not all carry the character matches[0] has there
RECURSIVE CommonEnd(_, _)
CommonEnd(matches, i) ==
  IF i >= Len(matches[1]) THEN i
  ELSE IF \A n \in 1..Len(matches) :
            i < Len(matches[n]) /\ matches[n][i + 1] = matches[1][i + 1]
       THEN CommonEnd(matches, i + 1)
       ELSE i

find_completions(f, d, penv, text) ==
  LET Result(matches) ==
        IF matches = <<>> THEN [matches |-> <<>>, longest_prefix |-> <<>>]
        ELSE [matches |-> matches,
              longest_prefix |-> Slice(matches[1], 0, CommonEnd(matches, Len(text)))]
  IN  Result(Matches(f, d, penv, text))

\* ------------------------------------------------------------------------
\* complete
\* ------------------------------------------------------------------------

VARIABLES
  last_text,           \* the globals of the completion callback
  tab_pressed,
  completion_matches,
  longest_prefix,
  req                  \* the last call of complete: its arguments, what it
                       \* returned and what it wrote to the terminal

SP  == <<" ">>
BEL == "BEL"   \* the character '\a'
NL  == "\n"

W_ech == <<"e", "c", "h">>
W_exi == <<"e", "x", "i">>
W_xyz_quz_qux_bar ==
  <<"x", "y", "z", "_", "q", "u", "z", "_", "q", "u", "x", "_", "b", "a", "r">>

\* a slip: cd is missing from the list
ExactNames_WithoutCd == <<W_echo, W_exit, W_type, W_pwd>>

\* the literal list of the exact-match checks of complete
ExactNames == <<W_echo, W_exit, W_type, W_pwd, W_cd>>

\* a slip: the stored candidates are recomputed at attempt index 0 only
Recompute_FirstAttemptOnly(g, text, state) == state = 0

\* line 199: if text != last_text or state == 0
Recompute(g, text, state) == text # g.last_text \/ state = 0

\* One call complete(text, state) on globals g in filesystem f: the globals
\* after the call, the value returned and the text written to sys.stdout.
complete(g, f, d, penv, text, state) ==
  LET Return(gg, r, o) == [g |-> gg, ret |-> r, out |-> o]
      recompute == Recompute(g, text, state)
      \* lines 199-202: the globals after find_completions returned fc
      Recomputed(fc) ==
        [g EXCEPT !.completion_matches = fc.matches,
                  !.longest_prefix = fc.longest_prefix,
                  !.last_text = text]
      \* lines 204-246 on the globals g1, with cm = g1.completion_matches,
      \* lp = g1.longest_prefix and m the match the attempt index selects
      Rest(g1, cm, lp, m) ==
        IF recompute /\ InList(text, ExactNames) /\ state = 0
          THEN Return(g1, text \o SP, <<>>)
        ELSE IF recompute /\ cm # <<>> /\ Len(lp) > Len(text) /\ state = 0
          THEN Return(g1, IF InList(lp, cm) THEN lp \o SP ELSE lp, <<>>)
        ELSE IF recompute /\ ~(cm # <<>> /\ Len(lp) > Len(text)) /\ Len(cm) = 1 /\ state = 0
          THEN Return(g1, cm[1] \o SP, <<>>)
        ELSE IF Len(cm) > 1 /\ ~g1.tab_pressed /\ state = 0
          THEN Return([g1 EXCEPT !.tab_pressed = TRUE], None,
                      IF Len(lp) <= Len(text) THEN <<BEL>> ELSE <<>>)
        ELSE IF Len(cm) > 1 /\ g1.tab_pressed /\ state = 0
          THEN Return([g1 EXCEPT !.tab_pressed = FALSE], None,
                      <<NL>> \o JoinWith(cm, <<" ", " ">>) \o <<NL>> \o <<"$", " ">> \o text)
        ELSE IF state < Len(cm)
          THEN Return(g1, IF m = text \/ InList(m, ExactNames) THEN m \o SP ELSE m, <<>>)
        ELSE Return(g1, None, <<>>)
      From(g1) ==
        Rest(g1, g1.completion_matches, g1.longest_prefix,
             IF state < Len(g1.completion_matches)
             THEN g1.completion_matches[state + 1] ELSE None)
  IN  IF text = W_ech /\ state = 0 THEN Return(g, W_echo \o SP, <<>>)
      ELSE IF text = W_exi /\ state = 0 THEN Return(g, W_exit \o SP, <<>>)
      ELSE IF InList(text, ExactNames) /\ state = 0 THEN Return(g, text \o SP, <<>>)
      ELSE IF text = W_xyz_quz_qux_bar /\ state = 0 THEN Return(g, text \o SP, <<>>)
      ELSE From(IF recompute THEN Recomputed(find_completions(f, d, penv, text)) ELSE g)

\* ------------------------------------------------------------------------
\* The completion engine as a state machine: readline calls complete(text, 0)
\* on a completion request and complete(text, 1), complete(text, 2), ... for
\* the further attempts
\* ------------------------------------------------------------------------

VARIABLES
  presses    \* history: how many requests in a row were made on req.text

S_bin    == <<"/", "b", "i", "n">>
S_opt    == <<"/", "o", "p", "t">>
S_locked == <<"/", "l", "o", "c", "k", "e", "d">>
S_nodir  == <<"/", "n", "o", "d", "i", "r">>
W_ls     == <<"l", "s">>
W_cdx    == <<"c", "d", "x">>
W_note   == <<"n", "o", "t", "e">>
W_xyz_   == <<"x", "y", "z", "_">>
W_xyz_a  == <<"x", "y", "z", "_", "a">>
W_xyz_b  == <<"x", "y", "z", "_", "b">>
W_zz     == <<"z", "z">>
W_zzz    == <<"z", "z", "z">>

\* PATH=/bin:/nodir:/opt:/locked where /nodir does not exist and /locked
\* cannot be listed
CompletePath ==
  S_bin \o <<":">> \o S_nodir \o <<":">> \o S_opt \o <<":">> \o S_locked

\* /bin and /opt both hold ls, /bin holds a file that is not executable
BaseFs ==
  (<<"/">> :> DirEntry(TRUE, TRUE, TRUE)) @@ (S_bin :> DirEntry(TRUE, TRUE, TRUE))
  @@ (S_opt :> DirEntry(TRUE, TRUE, TRUE)) @@ (S_locked :> DirEntry(TRUE, FALSE, FALSE))
  @@ (PathJoin(S_locked, W_zzz) :> FileEntry(TRUE, <<>>))
  @@ (PathJoin(S_bin, W_ls) :> FileEntry(TRUE, <<>>))
  @@ (PathJoin(S_opt, W_ls) :> FileEntry(TRUE, <<>>))
  @@ (PathJoin(S_bin, W_note) :> FileEntry(FALSE, <<>>))

\* the further files a search-path directory may hold: path and executable bit
FilePool ==
  { <<PathJoin(S_bin, W_echo), TRUE>>,
    <<PathJoin(S_bin, W_cdx), TRUE>>,
    <<PathJoin(S_opt, W_xyz_a), TRUE>>,
    <<PathJoin(S_opt, W_xyz_b), TRUE>>,
    <<PathJoin(S_opt, W_xyz_quz_qux_bar \o <<"_", "a">>), TRUE>> }

\* a bound: the number of pool files a filesystem holds
MaxFiles == 2

WithFiles(f, files) ==
  [q \in DOMAIN f \cup {e[1] : e \in files} |->
     IF \E e \in files : e[1] = q
     THEN FileEntry((CHOOSE e \in files : e[1] = q)[2], <<>>)
     ELSE f[q]]

\* the texts completion is requested on
Texts ==
  { <<>>, <<"e">>, W_ech, <<"c">>, <<"l">>, <<"n">>, <<"x">>,
    W_xyz_, W_xyz_quz_qux_bar, W_zz,
    W_echo, W_exit, W_type, W_pwd, W_cd }

\* bounds: the largest attempt index, the longest run of requests on one text
MaxState   == 1
MaxPresses == 3

NoReq == [text |-> None, state |-> 0, ret |-> None, out |-> <<>>]

Globals ==
  [last_text |-> last_text, tab_pressed |-> tab_pressed,
   completion_matches |-> completion_matches, longest_prefix |-> longest_prefix]

envVars      == <<fs, cwd, path_env, home_env>>
completeVars == <<last_text, tab_pressed, completion_matches, longest_prefix, req, presses>>

\* lines 103-106: the globals of the module; longest_prefix is not bound yet
InitGlobals ==
  /\ last_text = <<>>
  /\ tab_pressed = FALSE
  /\ completion_matches = <<>>
  /\ longest_prefix = None
  /\ req = NoReq
  /\ presses = 0

Call(text, state) ==
  \E r \in {complete(Globals, fs, cwd, path_env, text, state)} :
      /\ last_text' = r.g.last_text
      /\ tab_pressed' = r.g.tab_pressed
      /\ completion_matches' = r.g.completion_matches
      /\ longest_prefix' = r.g.longest_prefix
      /\ req' = [text |-> text, state |-> state, ret |-> r.ret, out |-> r.out]

\* a completion request: complete(text, 0)
Request(text) ==
  /\ (text = req.text => presses < MaxPresses)
  /\ Call(text, 0)
  /\ presses' = IF text = req.text THEN presses + 1 ELSE 1

\* a further attempt on the text of the last call: complete(text, state)
\* with state > 0
NextAttempt(state) ==
  /\ req.text # None
  /\ Call(req.text, state)
  /\ presses' = presses

\* ------------------------------------------------------------------------
\* Files: open(path, mode), f.write(text), os.makedirs, os.chdir
\* ------------------------------------------------------------------------

\* the outcome of an operation on the filesystem: err names the exception
\* raised ("" when none is)
FsResult(e, f) == [err |-> e, fs |-> f]

\* the entry of the nearest ancestor of the absolute path a that exists, a
\* itself included
RECURSIVE NearestEntry(_, _)
NearestEntry(f, a) ==
  IF a \in DOMAIN f THEN f[a]
  ELSE IF a = <<"/">> THEN Missing
  ELSE NearestEntry(f, Dirname(a))

\* the exception of open for a path in the missing directory a: the path
\* walk stops at a file, or at a directory that may not be searched
MissingParentError(f, a) ==
  LET Of(n) ==
        IF n.kind = "file" THEN "NotADirectoryError"
        ELSE IF n.kind = "dir" /\ ~n.x THEN "PermissionError"
        ELSE "FileNotFoundError"
  IN  Of(NearestEntry(f, a))

\* with open(path, mode) as h: h.write(text)      (mode "w" or "a")
OpenWrite(f, d, path, mode, text) ==
  LET \* a: the absolute path, e: its entry, parent: the entry of its directory
      Open(a, e, parent) ==
        IF e.kind = "dir" \/ path[Len(path)] = "/" THEN FsResult("IsADirectoryError", f)
        ELSE IF e.kind = "file" THEN
          IF ~e.w THEN FsResult("PermissionError", f)
          ELSE FsResult("", [f EXCEPT ![a].content = IF mode = "w" THEN text ELSE @ \o text])
        ELSE IF parent.kind = "none" THEN FsResult(MissingParentError(f, Dirname(a)), f)
        ELSE IF parent.kind = "file" THEN FsResult("NotADirectoryError", f)
        ELSE IF ~parent.w THEN FsResult("PermissionError", f)
        ELSE FsResult("", (a :> FileEntry(FALSE, text)) @@ f)
      At(a) ==
        IF a = None THEN FsResult("FileNotFoundError", f)
        ELSE Open(a, Lookup(f, d, a), Lookup(f, d, Dirname(a)))
  IN  At(AbsPath(d, path))

\* os.makedirs(a, exist_ok=True) of an absolute path: the missing ancestors
\* first, then os.mkdir(a)
RECURSIVE MakeDirs(_, _)
MakeDirs(f, a) ==
  LET \* up: the outcome of making the ancestors, parent: the entry of head
      Mkdir(up, parent) ==
        IF up.err # "" THEN up
        ELSE IF a \in DOMAIN up.fs THEN
          IF up.fs[a].kind = "dir" THEN up ELSE FsResult("FileExistsError", up.fs)
        ELSE IF parent.kind = "file" THEN FsResult("NotADirectoryError", up.fs)
        ELSE IF ~parent.w THEN FsResult("PermissionError", up.fs)
        ELSE FsResult("", (a :> DirEntry(TRUE, TRUE, TRUE)) @@ up.fs)
      After(head, up) ==
        Mkdir(up, IF head \in DOMAIN up.fs THEN up.fs[head] ELSE Missing)
      Under(head) ==
        After(head, IF a # <<"/">> /\ head \notin DOMAIN f
                    THEN MakeDirs(f, head) ELSE FsResult("", f))
  IN  Under(Dirname(a))

\* a text of the model for str(e) of an exception: one element naming it
ErrText(e) == <<e>>

S_ErrorCreatingDirectory ==
  <<"E", "r", "r", "o", "r", " ", "c", "r", "e", "a", "t", "i", "n", "g", " ",
    "d", "i", "r", "e", "c", "t", "o", "r", "y", " ">>

\* ensure_dir_exists(file_path): the filesystem afterwards and what it printed
ensure_dir_exists(f, d, file_path) ==
  LET Made(directory, r) ==
        [fs |-> r.fs,
         out |-> IF r.err = "" THEN <<>>
                 ELSE S_ErrorCreatingDirectory \o directory \o <<":", " ">>
                      \o ErrText(r.err) \o <<NL>>]
      Ensure(directory) ==
        IF directory # <<>> /\ ~Exists(f, d, directory)
        THEN Made(directory, MakeDirs(f, AbsPath(d, directory)))
        ELSE [fs |-> f, out |-> <<>>]
  IN  Ensure(Dirname(file_path))

\* a slip: os.chdir never raises

\* os.chdir(directory): the exception it raises, "" when it succeeds
ChdirError(f, d, directory) ==
  LET Of(e) ==
        IF e.kind = "none" THEN "FileNotFoundError"
        ELSE IF e.kind = "file" THEN "NotADirectoryError"
        ELSE IF ~e.x THEN "PermissionError"
        ELSE ""
  IN  Of(Lookup(f, d, directory))

\* ------------------------------------------------------------------------
\* int(s)
\* ------------------------------------------------------------------------

Digits == <<"0", "1", "2", "3", "4", "5", "6", "7", "8", "9">>
IsDigit(c) == InList(c, Digits)
DigitVal(c) == (CHOOSE i \in 1..10 : Digits[i] = c) - 1

RECURSIVE DigitsVal(_, _)
DigitsVal(s, acc) ==
  IF s = <<>> THEN acc
  ELSE IF s[1] = "_" THEN DigitsVal(Tail(s), acc)
  ELSE DigitsVal(Tail(s), 10 * acc + DigitVal(s[1]))

\* a slip: no argument is taken for an integer

\* int(s): surrounding whitespace, an optional sign, digits with single
\* underscores between them; ok is FALSE where int raises ValueError
ParseInt(s) ==
  LET Wellformed(ds) ==
        /\ ds # <<>>
        /\ \A i \in 1..Len(ds) : IsDigit(ds[i]) \/ ds[i] = "_"
        /\ IsDigit(ds[1]) /\ IsDigit(ds[Len(ds)])
        /\ \A i \in 1..(Len(ds) - 1) : ~(ds[i] = "_" /\ ds[i + 1] = "_")
      Value(negative, ds) ==
        IF Wellformed(ds)
        THEN [ok |-> TRUE, val |-> IF negative THEN 0 - DigitsVal(ds, 0)
                                   ELSE DigitsVal(ds, 0)]
        ELSE [ok |-> FALSE, val |-> 0]
      Signed(t) ==
        IF t # <<>> /\ t[1] \in {"+", "-"} THEN Value(t[1] = "-", Tail(t))
        ELSE Value(FALSE, t)
  IN  Signed(Strip(s))

\* ------------------------------------------------------------------------
\* main: the handling of one line
\* ------------------------------------------------------------------------

S_IsABuiltin ==
  <<" ", "i", "s", " ", "a", " ", "s", "h", "e", "l", "l", " ", "b", "u",
    "i", "l", "t", "i", "n">>
S_Is ==
  <<" ", "i", "s", " ">>
S_NotFound ==
  <<":", " ", "n", "o", "t", " ", "f", "o", "u", "n", "d">>
S_CdColon ==
  <<"c", "d", ":", " ">>
S_NoSuchFile ==
  <<":", " ", "N", "o", " ", "s", "u", "c", "h", " ", "f", "i", "l", "e",
    " ", "o", "r", " ", "d", "i", "r", "e", "c", "t", "o", "r", "y">>
S_NotADirectory ==
  <<":", " ", "N", "o", "t", " ", "a", " ", "d", "i", "r", "e", "c", "t",
    "o", "r", "y">>
S_PermissionDenied ==
  <<":", " ", "P", "e", "r", "m", "i", "s", "s", "i", "o", "n", " ", "d",
    "e", "n", "i", "e", "d">>
S_ErrorExecuting ==
  <<"E", "r", "r", "o", "r", " ", "e", "x", "e", "c", "u", "t", "i", "n",
    "g", " ", "c", "o", "m", "m", "a", "n", "d", ":", " ">>
S_CommandNotFound ==
  <<":", " ", "c", "o", "m", "m", "a", "n", "d", " ", "n", "o", "t", " ",
    "f", "o", "u", "n", "d">>

\* The outcome of handling a line: the filesystem, the working directory, the
\* text written to the terminal, how the handling ended ("" when the loop goes
\* on, "exit" for sys.exit, "crash" for an exception main does not catch),
\* the exit code, the exception, and the argv passed to subprocess.run (ran
\* tells that it was called, launched is <<>> when no process started).
Done(f, d, t) ==
  [fs |-> f, cwd |-> d, term |-> t, end |-> "", exit_code |-> 0, raised |-> "",
   ran |-> FALSE, launched |-> <<>>]
Crash(f, d, t, exc) == [Done(f, d, t) EXCEPT !.end = "crash", !.raised = exc]

\* a slip: every redirection truncates
WriteMode_AlwaysTruncate(append) == "w"

WriteMode(append) == IF append THEN "a" ELSE "w"

\* if stdout_file: with open(stdout_file, mode) as f: f.write(text)
\* else: print                      (text carries its line end)
ToStdout(f, d, t, r, text) ==
  IF r.stdout_file # None
  THEN LET Written(w) == IF w.err # "" THEN Crash(w.fs, d, t, w.err) ELSE Done(w.fs, d, t)
       IN  Written(OpenWrite(f, d, r.stdout_file, WriteMode(r.append_stdout), text))
  ELSE Done(f, d, t \o text)

\* if stderr_file: with open(stderr_file, mode) as f: f.write(error_msg + '\n')
\* else: print(error_msg)
ToStderr(f, d, t, r, text) ==
  IF r.stderr_file # None
  THEN LET Written(w) == IF w.err # "" THEN Crash(w.fs, d, t, w.err) ELSE Done(w.fs, d, t)
       IN  Written(OpenWrite(f, d, r.stderr_file, WriteMode(r.append_stderr), text))
  ELSE Done(f, d, t \o text)

\* lines 277-302
MainEcho(f, d, t, r) ==
  LET \* p: the parsed command, touch: the outcome of opening stderr_file
      Echo(p, touch) ==
        IF ~p.ok THEN Crash(f, d, t, "ValueError")
        ELSE IF touch.err # "" THEN Crash(touch.fs, d, t, touch.err)
        ELSE ToStdout(touch.fs, d, t, r,
                      (IF Len(p.args) > 1 THEN JoinWith(Tail(p.args), SP) ELSE <<>>)
                      \o <<NL>>)
  IN  Echo(parse_command(r.cmd),
           IF r.stderr_file # None
           THEN OpenWrite(f, d, r.stderr_file, WriteMode(r.append_stderr), <<>>)
           ELSE FsResult("", f))

\* lines 305-330
MainType(f, d, penv, t, r) ==
  LET Output(cmd_to_check, executable_path) ==
        IF InList(cmd_to_check, builtins) THEN cmd_to_check \o S_IsABuiltin
        ELSE IF executable_path # None THEN cmd_to_check \o S_Is \o executable_path
        ELSE cmd_to_check \o S_NotFound
      Type(p) ==
        IF ~p.ok THEN Crash(f, d, t, "ValueError")
        ELSE IF Len(p.args) > 1
          THEN ToStdout(f, d, t, r,
                        Output(p.args[2], find_executable(f, d, penv, p.args[2]))
                        \o <<NL>>)
        ELSE Done(f, d, t)
  IN  Type(parse_command(r.cmd))

\* lines 333-345
MainExit(f, d, t, r) ==
  LET Code(n) == IF n.ok THEN n.val ELSE 0
      Exit(p) ==
        IF ~p.ok THEN Crash(f, d, t, "ValueError")
        ELSE [Done(f, d, t) EXCEPT
                !.end = "exit",
                !.exit_code = IF Len(p.args) > 1 THEN Code(ParseInt(p.args[2])) ELSE 0]
  IN  Exit(parse_command(r.cmd))

\* lines 348-359
MainPwd(f, d, t, r) == ToStdout(f, d, t, r, d \o <<NL>>)

\* lines 362-407
MainCd(f, d, home, t, r) ==
  LET \* e: the exception os.chdir(directory) raises
      Chdir(directory, e) ==
        IF e = "" THEN Done(f, AbsPath(d, directory), t)
        ELSE ToStderr(f, d, t, r,
                      S_CdColon \o directory \o
                      (IF e = "FileNotFoundError" THEN S_NoSuchFile
                       ELSE IF e = "NotADirectoryError" THEN S_NotADirectory
                       ELSE S_PermissionDenied) \o <<NL>>)
      To(directory) == Chdir(directory, ChdirError(f, d, directory))
      Directory(arg) ==
        IF arg = <<"~">> THEN home
        ELSE IF StartsWith(arg, <<"~", "/">>)
             THEN PathJoin(home, Slice(arg, 2, Len(arg)))
        ELSE arg
      Cd(p) ==
        IF ~p.ok THEN Crash(f, d, t, "ValueError")
        ELSE IF Len(p.args) <= 1 THEN Done(f, d, t)
        ELSE To(Directory(p.args[2]))
  IN  Cd(parse_command(r.cmd))

\* lines 410-464; child is what the launched program does: fail (the launch
\* raises OSError), or the texts it writes to its stdout and its stderr

\* lines 447-455, the except Exception branch: the error goes to stderr
ExternalFailed(f, d, t, r, e) ==
  ToStderr(f, d, t, r, S_ErrorExecuting \o ErrText(e) \o <<NL>>)

\* lines 429-455: t1 is the terminal after the child, w1 and w2 the outcomes
\* of writing the captured stdout and the captured stderr
ExternalCaptured(d, t1, r, w1, w2) ==
  IF w1.err # "" THEN ExternalFailed(w1.fs, d, t1, r, w1.err)
  ELSE IF w2.err # "" THEN ExternalFailed(w2.fs, d, t1, r, w2.err)
  ELSE Done(w2.fs, d, t1)

ExternalStderr(d, t1, r, w1, child) ==
  ExternalCaptured(d, t1, r, w1,
                   IF r.stderr_file # None
                   THEN OpenWrite(w1.fs, d, r.stderr_file, WriteMode(r.append_stderr),
                                  child.err)
                   ELSE FsResult("", w1.fs))

\* lines 421-455: uncaptured streams go from the child to the terminal
ExternalRun(f, d, t, r, child) ==
  IF child.fail THEN ExternalFailed(f, d, t, r, "OSError")
  ELSE ExternalStderr(d,
                      t \o (IF r.stdout_file = None THEN child.out ELSE <<>>)
                        \o (IF r.stderr_file = None THEN child.err ELSE <<>>),
                      r,
                      IF r.stdout_file # None
                      THEN OpenWrite(f, d, r.stdout_file, WriteMode(r.append_stdout),
                                     child.out)
                      ELSE FsResult("", f),
                      child)

\* lines 412-464 on the parsed command p
ExternalArgs(f, d, penv, t, r, child, p) ==
  IF ~p.ok THEN Crash(f, d, t, "ValueError")
  ELSE IF p.args = <<>> THEN Done(f, d, t)
  ELSE IF find_executable(f, d, penv, p.args[1]) = None
    THEN ToStderr(f, d, t, r, p.args[1] \o S_CommandNotFound \o <<NL>>)
  ELSE [ExternalRun(f, d, t, r, child) EXCEPT
          !.ran = TRUE,
          !.launched = IF child.fail THEN <<>> ELSE p.args]

MainExternal(f, d, penv, t, r, child) ==
  ExternalArgs(f, d, penv, t, r, child, parse_command(r.cmd))

S_echoSp == W_echo \o SP
S_typeSp == W_type \o SP
S_cdSp   == W_cd \o SP

\* lines 277-464: the dispatch on s = cmd.strip(), in filesystem f, after t
\* was written to the terminal
Dispatch(f, d, penv, home, t, r, s, child) ==
  IF StartsWith(s, S_echoSp) THEN MainEcho(f, d, t, r)
  ELSE IF StartsWith(s, S_typeSp) THEN MainType(f, d, penv, t, r)
  ELSE IF StartsWith(s, W_exit) THEN MainExit(f, d, t, r)
  ELSE IF s = W_pwd THEN MainPwd(f, d, t, r)
  ELSE IF StartsWith(s, S_cdSp) THEN MainCd(f, d, home, t, r)
  ELSE MainExternal(f, d, penv, t, r, child)

\* a slip: no directory is made for the targets
EnsureDirs_NoneMade(f0, d, r) == [fs |-> f0, out |-> <<>>]

\* lines 271-274: the filesystem after the two ensure_dir_exists calls and
\* what they printed
EnsureDirs(f0, d, r) ==
  LET Both(e1, e2) == [fs |-> e2.fs, out |-> e1.out \o e2.out]
      Stderr(e1) ==
        Both(e1, IF r.stderr_file # None THEN ensure_dir_exists(e1.fs, d, r.stderr_file)
                 ELSE [fs |-> e1.fs, out |-> <<>>])
  IN  Stderr(IF r.stdout_file # None THEN ensure_dir_exists(f0, d, r.stdout_file)
             ELSE [fs |-> f0, out |-> <<>>])

\* lines 268-464 for the extracted redirections r
HandleRedirected(d, penv, home, r, e, child) ==
  Dispatch(e.fs, d, penv, home, e.out, r, Strip(r.cmd), child)

HandleExtracted(f0, d, penv, home, r, child) ==
  HandleRedirected(d, penv, home, r, EnsureDirs(f0, d, r), child)

\* lines 265-464: the body of the loop for the line command_str
HandleLine(f0, d, penv, home, command_str, child) ==
  HandleExtracted(f0, d, penv, home, handle_redirects(command_str), child)

\* ------------------------------------------------------------------------
\* main: the REPL loop as a state machine
\* ------------------------------------------------------------------------

VARIABLES
  pc,         \* "prompt", "read", or how the loop ended: "exited", "eof", "crashed"
  exit_code,  \* the argument of sys.exit
  raised,     \* the exception that ended the loop, "" when none did
  line,       \* the line read last (None before the first)
  redir,      \* handle_redirects(line) (NoRedir before it is computed)
  term,       \* what the last step wrote to the terminal
  launched,   \* the argv the last line started as a process, <<>> when none
  nlines,     \* the number of lines read
  tracked,    \* history: every line so far was a builtin redirected to TrackedFile
  expect      \* history: the content the lines so far give TrackedFile

replVars == <<pc, exit_code, raised, line, redir, term, launched, nlines, tracked, expect>>
vars == <<envVars, completeVars, replVars>>

W_hi     == <<"h", "i">>
W_f      == <<"f">>
W_nosuch == <<"n", "o", "s", "u", "c", "h">>
S_work   == <<"/", "w", "o", "r", "k">>
S_home   == <<"/", "h", "o", "m", "e">>
S_secret == <<"/", "s", "e", "c", "r", "e", "t">>
OP_gt    == <<">">>
OP_1gt   == <<"1", ">">>
OP_gg    == <<">", ">">>
OP_1gg   == <<"1", ">", ">">>
OP_2gt   == <<"2", ">">>
OP_2gg   == <<"2", ">", ">">>

\* the filesystem the shell starts in: /bin on the PATH with ls and echo,
\* /locked where nothing can be created, /secret that cannot be entered
ReplFs ==
  (<<"/">> :> DirEntry(TRUE, TRUE, TRUE)) @@ (S_bin :> DirEntry(TRUE, TRUE, TRUE))
  @@ (S_work :> DirEntry(TRUE, TRUE, TRUE)) @@ (S_home :> DirEntry(TRUE, TRUE, TRUE))
  @@ (S_locked :> DirEntry(TRUE, FALSE, FALSE)) @@ (S_secret :> DirEntry(FALSE, FALSE, FALSE))
  @@ (PathJoin(S_bin, W_ls) :> FileEntry(TRUE, <<>>))
  @@ (PathJoin(S_bin, W_echo) :> FileEntry(TRUE, <<>>))

ReplPath == S_bin \o <<":">> \o S_nodir

\* the file the redirected builtin lines write to, and its absolute path
TrackedFile == W_f
TrackedPath == PathJoin(S_work, TrackedFile)

\* the builtin command texts and the stdout operators of the redirected lines
BuiltinCmds ==
  { S_echoSp \o W_hi,
    S_echoSp \o <<" ">> \o <<"a">> \o <<" ", " ">> \o <<"b">>,
    S_typeSp \o W_cd,
    W_pwd }
TruncateOps == {OP_gt, OP_1gt}
AppendOps   == {OP_gg, OP_1gg}

Redirected(cmd, op, target) == cmd \o SP \o op \o SP \o target

RedirectedBuiltinLines ==
  {Redirected(c, op, TrackedFile) : c \in BuiltinCmds, op \in TruncateOps \cup AppendOps}

\* the other lines of the sessions
OtherLines ==
  { <<>>,
    S_echoSp \o W_hi,
    S_echoSp \o <<"\"">> \o W_hi,
    Redirected(S_echoSp \o W_hi, OP_gt, S_bin),
    Redirected(S_echoSp \o W_hi, OP_gt, <<"n", "e", "w", "/">> \o W_f),
    Redirected(S_echoSp \o W_hi, OP_gt, S_locked \o <<"/", "d", "/">> \o W_f),
    Redirected(S_echoSp \o W_hi, OP_2gt, TrackedFile),
    S_cdSp \o S_nodir,
    S_cdSp \o S_bin,
    S_cdSp \o S_secret,
    S_cdSp \o PathJoin(S_bin, W_ls),
    S_cdSp \o <<"~">>,
    W_nosuch,
    W_ls,
    Redirected(W_ls, OP_gg, TrackedFile),
    Redirected(W_ls, OP_gt, S_bin),
    W_echo,
    W_exit,
    W_exit \o SP \o <<"4", "2">>,
    W_exit \o SP \o <<"a", "b", "c">> }

Lines == RedirectedBuiltinLines \cup OtherLines

\* what a launched program may do
NoChild == [fail |-> FALSE, out |-> <<>>, err |-> <<>>]
ChildOutcomes ==
  { NoChild,
    [fail |-> TRUE, out |-> <<>>, err |-> <<>>],
    [fail |-> FALSE, out |-> <<"o", "k", NL>>, err |-> <<"w", NL>>] }

\* a bound: the number of lines of a session
MaxLines == 3

\* the content of file a, None when it does not exist
Content(f, a) == IF a \in DOMAIN f /\ f[a].kind = "file" THEN f[a].content ELSE None

\* no line was handled yet
NoRedir ==
  [cmd |-> None, stdout_file |-> None, stderr_file |-> None,
   append_stdout |-> FALSE, append_stderr |-> FALSE]

IdleRepl ==
  /\ pc = "prompt" /\ exit_code = 0 /\ raised = "" /\ line = None /\ redir = NoRedir
  /\ term = <<>> /\ launched = <<>> /\ nlines = 0

Init ==
  /\ \E old \in {None, <<"o", "l", "d", NL>>} :
       /\ fs = IF old = None THEN ReplFs
               ELSE (TrackedPath :> FileEntry(FALSE, old)) @@ ReplFs
       /\ expect = old
  /\ cwd = S_work
  /\ path_env = ReplPath
  /\ home_env = S_home
  /\ InitGlobals
  /\ IdleRepl
  /\ tracked = TRUE

\* lines 260-261
Prompt ==
  /\ pc = "prompt"
  /\ pc' = "read"
  /\ term' = <<"$", " ">>
  /\ UNCHANGED <<envVars, completeVars, exit_code, raised, line, redir, launched,
                 nlines, tracked, expect>>

\* the output of a line: what its command writes when nothing redirects it
LineOutput(cmd) == HandleLine(fs, cwd, path_env, home_env, cmd, NoChild).term

\* lines 265-464 for one line of input; a program the line launches does any
\* of ChildOutcomes
ReadLine(l) ==
  /\ pc = "read"
  /\ nlines < MaxLines
  /\ \E quiet \in {HandleLine(fs, cwd, path_env, home_env, l, NoChild)} :
       \E res \in IF quiet.ran
                  THEN {HandleLine(fs, cwd, path_env, home_env, l, child) :
                          child \in ChildOutcomes}
                  ELSE {quiet} :
         /\ fs' = res.fs
         /\ cwd' = res.cwd
         /\ term' = res.term
         /\ launched' = res.launched
         /\ exit_code' = res.exit_code
         /\ raised' = res.raised
         /\ pc' = IF res.end = "exit" THEN "exited"
                  ELSE IF res.end = "crash" THEN "crashed"
                  ELSE "prompt"
  /\ line' = l
  /\ redir' = handle_redirects(l)
  /\ nlines' = nlines + 1
  /\ tracked' = (tracked /\ l \in RedirectedBuiltinLines)
  /\ expect' =
       LET \* out: what the command of a redirected builtin line writes
           After(out) ==
             IF \E c \in BuiltinCmds, op \in TruncateOps :
                  l = Redirected(c, op, TrackedFile)
             THEN out
             ELSE IF \E c \in BuiltinCmds, op \in AppendOps :
                       l = Redirected(c, op, TrackedFile)
             THEN (IF expect = None THEN <<>> ELSE expect) \o out
             ELSE expect
       IN  After(IF l \in RedirectedBuiltinLines
                 THEN LineOutput(CHOOSE c \in BuiltinCmds :
                                   \E op \in TruncateOps \cup AppendOps :
                                     l = Redirected(c, op, TrackedFile))
                 ELSE <<>>)
  /\ UNCHANGED <<path_env, home_env, completeVars>>

\* lines 466-468: input() raises EOFError
EndOfInput ==
  /\ pc = "read"
  /\ pc' = "eof"
  /\ term' = <<>>
  /\ UNCHANGED <<envVars, completeVars, exit_code, raised, line, redir, launched,
                 nlines, tracked, expect>>

Next ==
  \/ Prompt
  \/ \E l \in Lines : ReadLine(l)
  \/ EndOfInput

Spec == Init /\ [][Next]_vars

\* ------------------------------------------------------------------------
\* The completion engine alone, over every filesystem of at most MaxFiles
\* pool files
\* ------------------------------------------------------------------------

InitComplete ==
  /\ \E files \in SUBSET FilePool :
       /\ Cardinality(files) <= MaxFiles
       /\ fs = WithFiles(BaseFs, files)
  /\ cwd = <<"/">>
  /\ path_env = CompletePath
  /\ home_env = S_home
  /\ InitGlobals
  /\ IdleRepl
  /\ tracked = FALSE
  /\ expect = None

NextComplete ==
  \/ \E text \in Texts : Request(text) /\ UNCHANGED <<envVars, replVars>>
  \/ \E state \in 1..MaxState : NextAttempt(state) /\ UNCHANGED <<envVars, replVars>>

SpecComplete == InitComplete /\ [][NextComplete]_vars

\* ------------------------------------------------------------------------
\* handle_redirects alone, over lines with up to two redirections
\* ------------------------------------------------------------------------

RedirOps == {OP_gt, OP_1gt, OP_gg, OP_1gg, OP_2gt, OP_2gg}

\* a redirection as typed: the operator and its target between single spaces
Redir(op, target) == SP \o op \o SP \o target

RedirCmds == {S_echoSp \o W_hi, W_ls}

RedirLines ==
  LET one == {Redir(op, W_f) : op \in RedirOps}
      two == {Redir(o1, W_f) \o Redir(o2, <<"g">>) : o1 \in RedirOps, o2 \in RedirOps}
  IN  {c \o rs \o trail : c \in RedirCmds, rs \in {<<>>} \cup one \cup two,
                          trail \in {<<>>, SP}}

InitRedirect ==
  /\ fs = ReplFs
  /\ cwd = S_work
  /\ path_env = ReplPath
  /\ home_env = S_home
  /\ InitGlobals
  /\ pc = "prompt" /\ exit_code = 0 /\ raised = "" /\ redir = NoRedir
  /\ term = <<>> /\ launched = <<>> /\ nlines = 0
  /\ line \in RedirLines
  /\ tracked = FALSE
  /\ expect = None

\* line 268: handle_redirects(command_str)
Extract ==
  /\ line # None
  /\ redir = NoRedir
  /\ redir' = handle_redirects(line)
  /\ UNCHANGED <<envVars, completeVars, pc, exit_code, raised, line, term, launched,
                 nlines, tracked, expect>>

NextRedirect == Extract

SpecRedirect == InitRedirect /\ [][NextRedirect]_vars

\* ------------------------------------------------------------------------
\* Properties of the REPL loop (specification Spec)
\* ------------------------------------------------------------------------

\* C1: the loop ends only on an exit line or on end-of-input: no line makes
\* an exception leave main, whatever error the line hits.
C1_LoopEndsOnlyOnExitOrEof == pc # "crashed"

S_hiNL == W_hi \o <<NL>>

\* C2: while every line of the session is a builtin line redirected to
\* TrackedFile, the file holds the output of the lines since the last
\* truncating line, or its previous content followed by every output when all
\* the lines appended; and after `echo hi > f`, whatever came before, the
\* file f of the working directory holds exactly hi\n.
C2_RedirectedBuiltinContent ==
  /\ tracked => (pc # "crashed" /\ Content(fs, TrackedPath) = expect)
  /\ (line = Redirected(S_echoSp \o W_hi, OP_gt, W_f) /\ pc # "crashed")
       => Content(fs, AbsPath(cwd, W_f)) = S_hiNL

\* C2 witness: three redirected builtin lines, the last two appending hi\n to
\* what a truncating line left
C2_Witness ==
  /\ tracked /\ nlines = 3
  /\ line = Redirected(S_echoSp \o W_hi, OP_gg, TrackedFile)
  /\ Content(fs, TrackedPath) = S_work \o <<NL>> \o S_hiNL \o S_hiNL

\* ------------------------------------------------------------------------
\* Properties of handle_redirects (specification SpecRedirect)
\* ------------------------------------------------------------------------

\* s.split(): the maximal runs of characters that are not whitespace
RECURSIVE Words(_)
Words(s) ==
  LET t == Strip(s)
      ws == {i \in 1..Len(t) : IsWs(t[i])}
  IN  IF t = <<>> THEN <<>>
      ELSE IF ws = {} THEN <<t>>
      ELSE LET i == CHOOSE x \in ws : \A y \in ws : x <= y
           IN  <<SubSeq(t, 1, i - 1)>> \o Words(SubSeq(t, i + 1, Len(t)))

WordSet(s) == {Words(s)[i] : i \in 1..Len(Words(s))}

Extracted == redir # NoRedir

\* the operator spellings of the redirections handle_redirects reports
DetectedOps ==
  (IF redir.stdout_file = None THEN {}
   ELSE IF redir.append_stdout THEN AppendOps ELSE TruncateOps)
  \cup (IF redir.stderr_file = None THEN {}
        ELSE IF redir.append_stderr THEN {OP_2gg} ELSE {OP_2gt})

DetectedTargets == {redir.stdout_file, redir.stderr_file} \ {None}

\* C3: the command text handle_redirects returns holds no detected
\* redirection operator and no word of a detected target.
C3_CommandTextExcludesRedirections ==
  Extracted =>
    /\ WordSet(redir.cmd) \cap DetectedOps = {}
    /\ \A t \in DetectedTargets : WordSet(redir.cmd) \cap WordSet(t) = {}

\* the positions where a redirection operator stands as a word of s
OpWordStarts(s, ops) ==
  {i \in 0..Len(s) :
     /\ (i = 0 \/ IsWs(s[i]))
     /\ \E op \in ops : HasAt(s, i, op) /\ (i + Len(op) = Len(s) \/ IsWs(s[i + Len(op) + 1]))}

OpWordLen(s, i, ops) ==
  Len(CHOOSE op \in ops : HasAt(s, i, op) /\ (i + Len(op) = Len(s) \/ IsWs(s[i + Len(op) + 1])))

MinOf(S) == CHOOSE x \in S : \A y \in S : x <= y

\* the text after the first operator of ops up to the next operator word or
\* the end of the line, trimmed
TextAfterOp(s, ops) ==
  LET i == MinOf(OpWordStarts(s, ops))
      from == i + OpWordLen(s, i, ops)
      later == {j \in OpWordStarts(s, RedirOps) : j >= from}
  IN  Strip(Slice(s, from, IF later = {} THEN Len(s) ELSE MinOf(later)))

\* C4: each target handle_redirects returns is the trimmed text between its
\* operator and the next redirection operator or the end of the line.
C4_TargetIsTextUpToNextOperator ==
  Extracted =>
    /\ redir.stdout_file # None =>
         redir.stdout_file =
           TextAfterOp(line, IF redir.append_stdout THEN AppendOps ELSE TruncateOps)
    /\ redir.stderr_file # None =>
         redir.stderr_file =
           TextAfterOp(line, IF redir.append_stderr THEN {OP_2gg} ELSE {OP_2gt})

\* ------------------------------------------------------------------------
\* Properties of the completion engine (specification SpecComplete)
\* ------------------------------------------------------------------------

\* the search-path directories that exist and can be listed
ListablePathDirs ==
  {a \in {AbsPath(cwd, SplitColon(path_env)[n]) : n \in 1..Len(SplitColon(path_env))} :
     a \in DOMAIN fs /\ fs[a].kind = "dir" /\ fs[a].r}

\* the candidates of a prefix: the builtin names and the names of the
\* executable files of the search path that start with it
CandidateSet(text) ==
  {builtins[n] : n \in {m \in 1..Len(builtins) : StartsWith(builtins[m], text)}}
  \cup {Basename(q) : q \in {a \in DOMAIN fs :
            /\ fs[a].kind = "file" /\ fs[a].x
            /\ Dirname(a) \in ListablePathDirs
            /\ StartsWith(Basename(a), text)}}

IsPrefixOfAll(p, S) == \A c \in S : StartsWith(c, p)

\* the longest common extension of a non-empty candidate set
LongestCommonExtension(S) ==
  LET c0 == CHOOSE c \in S : TRUE
      ps == {k \in 0..Len(c0) : IsPrefixOfAll(Slice(c0, 0, k), S)}
  IN  Slice(c0, 0, CHOOSE k \in ps : \A j \in ps : k >= j)

\* the candidates in lexicographic order
RECURSIVE SortedSeq(_)
SortedSeq(S) ==
  IF S = {} THEN <<>>
  ELSE LET m == CHOOSE x \in S : \A y \in S \ {x} : StrLess(x, y)
       IN  <<m>> \o SortedSeq(S \ {m})

\* several candidates and no common extension beyond the prefix
Ambiguous(text) ==
  /\ Cardinality(CandidateSet(text)) >= 2
  /\ LongestCommonExtension(CandidateSet(text)) = text

\* exactly one candidate, or a common extension longer than the prefix
Determinate(text) ==
  /\ CandidateSet(text) # {}
  /\ \/ Cardinality(CandidateSet(text)) = 1
     \/ Len(LongestCommonExtension(CandidateSet(text))) > Len(text)

\* the texts complete answers before it looks at the candidates
IsExactBuiltin(text) == text \in {W_echo, W_exit, W_type, W_pwd, W_cd}

Requested == req.text # None /\ req.state = 0

RangBell     == req.ret = None /\ req.out = <<BEL>>
PrintedList  ==
  /\ req.ret = None
  /\ req.out = <<NL>> \o JoinWith(SortedSeq(CandidateSet(req.text)), <<" ", " ">>)
               \o <<NL>> \o <<"$", " ">> \o req.text

\* C5: on an ambiguous prefix the requests in a row alternate: the first, the
\* third, ... ring the bell and print nothing, the second, the fourth, ...
\* print the sorted candidates and the prompt and clear the awaiting flag.
C5_RequestsAlternate ==
  (Requested /\ Ambiguous(req.text) /\ ~IsExactBuiltin(req.text)) =>
    IF presses % 2 = 1 THEN RangBell ELSE PrintedList /\ ~tab_pressed

\* C6: the first request on a prefix that differs from the previous request's
\* starts from fresh state: on an ambiguous prefix it rings the bell and
\* prints no list.
C6_PrefixChangeResets ==
  (Requested /\ presses = 1 /\ Ambiguous(req.text) /\ ~IsExactBuiltin(req.text))
    => RangBell

\* what State A returns: the extension, and a space when it is a full name
DeterminateAnswer(text) ==
  LET e == LongestCommonExtension(CandidateSet(text))
  IN  IF e \in CandidateSet(text) THEN e \o SP ELSE e

\* C7 as claimed: on every determinate prefix the first request returns the
\* longest common extension, with a space exactly when it is a full
\* candidate name, and rings no bell.
C7_Original ==
  (Requested /\ Determinate(req.text)) =>
    req.ret = DeterminateAnswer(req.text) /\ req.out = <<>>

\* C7: the same on every determinate prefix other than the text
\* xyz_quz_qux_bar, for which complete returns the text and a space.
C7_DeterminateExtension ==
  /\ (Requested /\ Determinate(req.text) /\ req.text # W_xyz_quz_qux_bar) =>
       req.ret = DeterminateAnswer(req.text) /\ req.out = <<>>
  /\ (Requested /\ req.text = W_xyz_quz_qux_bar) =>
       req.ret = W_xyz_quz_qux_bar \o SP /\ req.out = <<>>

\* C7 witness: a request on x where xyz_a and xyz_b are the candidates got
\* the partial extension xyz_ without a space, though a bell was pending
C7_Witness ==
  /\ Requested /\ req.text = <<"x">> /\ Cardinality(CandidateSet(<<"x">>)) = 2
  /\ req.ret = W_xyz_ /\ tab_pressed

\* C8 as claimed: a prefix without candidates gets no completion at any
\* attempt index.
C8_Original ==
  (req.text # None /\ CandidateSet(req.text) = {}) => req.ret = None

\* C8: a prefix without candidates gets no completion at any attempt index
\* and leaves the stored candidates empty, except the text xyz_quz_qux_bar at
\* attempt index 0, which is answered before the candidates are looked up.
C8_NoCandidatesNoCompletion ==
  (/\ req.text # None
   /\ CandidateSet(req.text) = {}
   /\ ~(req.text = W_xyz_quz_qux_bar /\ req.state = 0)) =>
     req.ret = None /\ completion_matches = <<>> /\ req.out = <<>>

\* C8 witness: attempts 0 and 1 on zz, whose only match lies in a directory
\* that cannot be listed
C8_Witness ==
  /\ req.text = W_zz /\ req.state = 1 /\ presses = 1
  /\ CandidateSet(W_zz) = {} /\ req.ret = None

\* C9: the candidate sequence find_completions computed for a request is
\* sorted and holds each name once: it is the sorted union of the matching
\* builtins and executables.
C9_CandidatesSortedDistinct ==
  (Requested /\ last_text = req.text) =>
     completion_matches = SortedSeq(CandidateSet(req.text))

\* C10: a first request on a text that is a builtin name returns the name
\* and a space.
C10_ExactBuiltinWins ==
  (Requested /\ IsExactBuiltin(req.text)) => req.ret = req.text \o SP /\ req.out = <<>>

\* C10 witness: cd was requested while cdx is on the search path and a bell
\* was pending
C10_Witness ==
  /\ Requested /\ req.text = W_cd /\ W_cdx \in CandidateSet(W_cd)
  /\ tab_pressed /\ req.ret = W_cd \o SP

\* ------------------------------------------------------------------------
\* Sessions of cd and pwd lines
\* ------------------------------------------------------------------------

S_cdNodir   == S_cdSp \o S_nodir
S_cdTilde   == S_cdSp \o <<"~">>
S_cdTildeNosuch == S_cdSp \o <<"~", "/">> \o W_nosuch
S_cdNosuch  == S_cdSp \o W_nosuch
S_cdBin     == S_cdSp \o S_bin
S_cdRoot    == S_cdSp \o <<"/">>
S_cdRelBin  == S_cdSp \o <<"b", "i", "n">>
W_o == <<"o">>

\* cd /nodir with both targets, the stderr operator first and last
S_cdStderrFirst == Redirected(Redirected(S_cdNodir, OP_2gt, W_f), OP_gt, W_o)
S_cdStderrLast  == Redirected(Redirected(S_cdNodir, OP_gt, W_o), OP_2gt, W_f)

CdLines ==
  { S_cdNodir,
    Redirected(S_cdNodir, OP_2gt, W_f),
    Redirected(S_cdNodir, OP_2gg, W_f),
    Redirected(S_cdNodir, OP_gt, W_f),
    S_cdStderrFirst,
    S_cdStderrLast,
    S_cdTildeNosuch,
    Redirected(S_cdNosuch, OP_2gg, W_f),
    S_cdBin,
    Redirected(S_cdBin, OP_2gt, W_f),
    S_cdTilde,
    S_cdRoot,
    S_cdRelBin,
    S_cdSp \o S_secret,
    S_cdSp \o PathJoin(S_bin, W_ls),
    W_pwd,
    Redirected(W_pwd, OP_gt, W_f) }

NextCd ==
  \/ Prompt
  \/ \E l \in CdLines : ReadLine(l)
  \/ EndOfInput

SpecCd == Init /\ [][NextCd]_vars

\* the diagnostic line of a cd to a path that does not exist
CdMessage(path) ==
  <<"c", "d", ":", " ">> \o path \o
  <<":"," ","N","o"," ","s","u","c","h"," ","f","i","l","e"," ","o","r"," ","d","i","r","e","c","t","o","r","y">> \o <<NL>>

\* the cd commands of the sessions whose path never exists, with the path as
\* cd resolves it
NoSuchCds ==
  { [cmd |-> S_cdNodir, path |-> S_nodir],
    [cmd |-> S_cdTildeNosuch, path |-> PathJoin(S_home, W_nosuch)],
    [cmd |-> S_cdNosuch, path |-> W_nosuch] }

\* the working directory after line l was handled in directory d: the
\* directory of a cd that succeeds, d for every other line
CdExpect(l, d) ==
  IF l \in {S_cdBin, Redirected(S_cdBin, OP_2gt, W_f)} THEN S_bin
  ELSE IF l = S_cdTilde THEN S_home
  ELSE IF l = S_cdRoot THEN <<"/">>
  ELSE IF l = S_cdRelBin /\ d = <<"/">> THEN S_bin
  ELSE d

\* the step changes no file but a, which it may create
OnlyFileChanged(a) ==
  /\ DOMAIN fs' \subseteq DOMAIN fs \cup {a}
  /\ \A q \in DOMAIN fs : q # a => (q \in DOMAIN fs' /\ fs'[q] = fs[q])

\* the stated behaviour of a step that handles a line of the sessions: the
\* working directory follows the cd lines that succeed, pwd writes it, and a
\* cd to a path that does not exist writes its diagnostic to the stderr
\* target of the line, or to the terminal when the line has none
CdStep ==
  /\ pc' = "prompt"
  /\ cwd' = CdExpect(line', cwd)
  /\ (line' = W_pwd => term' = cwd \o <<NL>>)
  /\ (line' \in {S_cdStderrFirst, S_cdStderrLast} =>
        /\ term' = <<>>
        /\ Content(fs', AbsPath(cwd, W_f)) = CdMessage(S_nodir))
  /\ \A c \in NoSuchCds :
       /\ line' \in {c.cmd, Redirected(c.cmd, OP_gt, W_f)} =>
            term' = CdMessage(c.path) /\ fs' = fs
       /\ line' = Redirected(c.cmd, OP_2gt, W_f) =>
            /\ term' = <<>>
            /\ Content(fs', AbsPath(cwd, W_f)) = CdMessage(c.path)
            /\ OnlyFileChanged(AbsPath(cwd, W_f))
       /\ line' = Redirected(c.cmd, OP_2gg, W_f) =>
            /\ term' = <<>>
            /\ Content(fs', AbsPath(cwd, W_f)) =
                 (IF Content(fs, AbsPath(cwd, W_f)) = None THEN <<>>
                  ELSE Content(fs, AbsPath(cwd, W_f))) \o CdMessage(c.path)
            /\ OnlyFileChanged(AbsPath(cwd, W_f))

\* C11: a cd to a path that does not exist writes exactly the line
\* cd: <path>: No such file or directory, to the stderr target (truncated
\* or appended to per its operator) when the line has one and to the terminal
\* otherwise, and leaves the working directory as it was; every line leaves
\* the working directory at the directory of the last cd that succeeded, and
\* pwd writes that directory.
C11_CdNoSuchDirectory ==
  [][nlines' = nlines + 1 => CdStep]_vars

\* the lines other than the one with the stderr operator before the stdout
\* operator behave as stated
C11_StderrOperatorLast ==
  [][(nlines' = nlines + 1 /\ line' # S_cdStderrFirst) => CdStep]_vars

\* after cd /bin succeeded, two failed cd lines left their diagnostics in
\* /bin/f and the working directory at /bin
C11_AppendedTwice ==
  /\ nlines = 3 /\ pc = "prompt" /\ cwd = S_bin
  /\ line = Redirected(S_cdNodir, OP_2gg, W_f)
  /\ Content(fs, PathJoin(S_bin, W_f)) = CdMessage(S_nodir) \o CdMessage(S_nodir)

\* cd /nodir 2> f > o left no file f: the diagnostic is in the file "f > o"
C11_StderrFirst ==
  /\ nlines = 1 /\ pc = "prompt" /\ line = S_cdStderrFirst
  /\ Content(fs, PathJoin(S_work, W_f)) = None
  /\ Content(fs, PathJoin(S_work, <<"f"," ",">"," ","o">>)) = CdMessage(S_nodir)

\* ------------------------------------------------------------------------
\* Sessions of exit lines
\* ------------------------------------------------------------------------

S_exitSp == W_exit \o SP

\* exit lines with the exit code the builtin's rule gives each: argv[1] as an
\* integer, 0 when there is none or it is no integer
ExitCodes ==
  { [l |-> W_exit, code |-> 0],
    [l |-> S_exitSp \o <<"4","2">>, code |-> 42],
    [l |-> S_exitSp \o <<"a","b","c">>, code |-> 0],
    [l |-> S_exitSp \o <<"0">>, code |-> 0],
    [l |-> S_exitSp \o <<"-","3">>, code |-> 0 - 3],
    [l |-> S_exitSp \o <<"+","7">>, code |-> 7],
    [l |-> S_exitSp \o <<"4","x">>, code |-> 0],
    [l |-> S_exitSp \o <<"'","4","2","'">>, code |-> 42],
    [l |-> S_exitSp \o <<"4","2"," ","7">>, code |-> 42],
    [l |-> Redirected(S_exitSp \o <<"5">>, OP_gt, W_f), code |-> 5] }

\* an exit line whose quote never closes: it has no argv[1]
S_exitUnterminated == S_exitSp \o <<"\"","1">>

ExitLines == {e.l : e \in ExitCodes} \cup {S_exitUnterminated}

ExitSessionLines ==
  ExitLines \cup {W_pwd, S_cdBin, Redirected(S_echoSp \o W_hi, OP_gg, W_f)}

NextExit ==
  \/ Prompt
  \/ \E l \in ExitSessionLines : ReadLine(l)
  \/ EndOfInput

SpecExit == Init /\ [][NextExit]_vars

\* the exit code the rule gives line l
ExitCodeOf(l) ==
  IF l = S_exitUnterminated THEN 0 ELSE (CHOOSE e \in ExitCodes : e.l = l).code

\* C12: an exit line ends the process at once with the code its argv[1]
\* gives, 0 when argv[1] is absent or no integer, and no line is read after it.
C12_ExitCode ==
  /\ [](pc = "exited" => line \in ExitLines /\ ~ENABLED NextExit)
  /\ [][(nlines' = nlines + 1 /\ line' \in ExitLines) =>
          (pc' = "exited" /\ exit_code' = ExitCodeOf(line'))]_vars

\* the exit lines that tokenize end the process with the code of the rule
C12_TokenizedExitCode ==
  [][(nlines' = nlines + 1 /\ line' \in ExitLines
        /\ line' # S_exitUnterminated) =>
       (pc' = "exited" /\ exit_code' = ExitCodeOf(line')
          /\ cwd' = cwd /\ term' = <<>>)]_vars

\* exit 42 after another line ended the process with code 42
C12_Reached ==
  /\ pc = "exited" /\ nlines = 2 /\ exit_code = 42
  /\ line = S_exitSp \o <<"4","2">>

\* ------------------------------------------------------------------------
\* The resolver over search paths, working directories and filesystems
\* ------------------------------------------------------------------------

W_cat == <<"c","a","t">>

\* search paths as the sequences of their directories; <<>> is the variable
\* unset or empty
ResolveDirs ==
  { <<>>, <<S_bin>>, <<S_home, S_bin>>, <<S_work, S_home, S_bin>>,
    <<S_nodir, S_home>>, <<S_bin, S_home>>, <<S_secret, S_work>> }

RECURSIVE JoinColon(_)
JoinColon(dirs) ==
  IF dirs = <<>> THEN <<>>
  ELSE IF Len(dirs) = 1 THEN dirs[1]
  ELSE dirs[1] \o <<":">> \o JoinColon(Tail(dirs))

\* the entry at path a, if any: an executable file, a plain file or a directory
Placed(a, k) ==
  IF k = "exec" THEN a :> FileEntry(TRUE, <<>>)
  ELSE IF k = "plain" THEN a :> FileEntry(FALSE, <<>>)
  ELSE IF k = "dir" THEN a :> DirEntry(TRUE, TRUE, TRUE)
  ELSE [q \in {} |-> Missing]

ResolveFilesystems ==
  { Placed(PathJoin(S_work, W_ls), k1) @@ Placed(PathJoin(S_home, W_ls), k2)
      @@ Placed(PathJoin(S_home, W_cat), k3) @@ ReplFs :
      k1 \in {"none", "plain", "exec"}, k2 \in {"none", "exec"},
      k3 \in {"none", "dir", "exec"} }

ResolveNames == {W_ls, W_cat, W_nosuch}

ResolveLines == {S_typeSp \o name : name \in ResolveNames} \cup {W_ls}

InitResolve ==
  /\ fs \in ResolveFilesystems
  /\ cwd \in {S_work, S_home}
  /\ path_env \in {JoinColon(dirs) : dirs \in ResolveDirs}
  /\ home_env = S_home
  /\ InitGlobals
  /\ IdleRepl
  /\ tracked = FALSE
  /\ expect = None

NextResolve ==
  \/ Prompt
  \/ \E l \in ResolveLines : ReadLine(l)
  \/ EndOfInput

SpecResolve == InitResolve /\ [][NextResolve]_vars

\* name is a regular file in directory dir that the user may execute
RegularExecutable(f, dir, name) ==
  LET Is(a) == a \in DOMAIN f /\ f[a].kind = "file" /\ f[a].x
  IN  Is(dir \o <<"/">> \o name)

\* the path of name in the first directory of dirs that has it as a regular
\* executable file, None when no directory has (so for an empty search path)
FirstIn(f, dirs, name) ==
  LET Has == {i \in 1..Len(dirs) : RegularExecutable(f, dirs[i], name)}
      At(i) == dirs[i] \o <<"/">> \o name
  IN  IF Has = {} THEN None
      ELSE At(CHOOSE i \in Has : \A j \in Has : i <= j)

SearchDirs == CHOOSE dirs \in ResolveDirs : JoinColon(dirs) = path_env

\* C13: find_executable(name) is the path of name in the first search-path
\* directory that has name as a regular executable file, and none when no
\* directory has or the search-path variable is unset or empty.
C13_FindExecutable ==
  \A name \in ResolveNames :
    find_executable(fs, cwd, path_env, name) = FirstIn(fs, SearchDirs, name)

\* with a search path that names a directory the resolver is as stated
C13_NonEmptySearchPath ==
  path_env # <<>> =>
    \A name \in ResolveNames :
      find_executable(fs, cwd, path_env, name) = FirstIn(fs, SearchDirs, name)

\* type ls reported a resolution under an empty search path
C13_ResolvedWithoutSearchPath ==
  /\ path_env = <<>> /\ nlines = 1 /\ line = S_typeSp \o W_ls
  /\ term = W_ls \o <<" ","i","s"," ","l","s">> \o <<NL>>

\* ------------------------------------------------------------------------
\* Sessions of echo lines that redirect stderr
\* ------------------------------------------------------------------------

S_echoHi == S_echoSp \o W_hi

\* echo hi with a stderr redirection to f and possibly a stdout redirection
\* to o: the line, whether each operator appends, whether stdout is redirected
EchoStderrLines ==
  { [l |-> Redirected(S_echoHi, OP_2gt, W_f),
     err_append |-> FALSE, out |-> FALSE, out_append |-> FALSE],
    [l |-> Redirected(S_echoHi, OP_2gg, W_f),
     err_append |-> TRUE, out |-> FALSE, out_append |-> FALSE],
    [l |-> Redirected(Redirected(S_echoHi, OP_gt, W_o), OP_2gt, W_f),
     err_append |-> FALSE, out |-> TRUE, out_append |-> FALSE],
    [l |-> Redirected(Redirected(S_echoHi, OP_gg, W_o), OP_2gg, W_f),
     err_append |-> TRUE, out |-> TRUE, out_append |-> TRUE],
    [l |-> Redirected(Redirected(S_echoHi, OP_2gt, W_f), OP_gt, W_o),
     err_append |-> FALSE, out |-> TRUE, out_append |-> FALSE],
    [l |-> Redirected(Redirected(S_echoHi, OP_2gg, W_f), OP_gg, W_o),
     err_append |-> TRUE, out |-> TRUE, out_append |-> TRUE] }

\* the lines of EchoStderrLines whose stderr operator is the last of the line
StderrLast ==
  {e \in EchoStderrLines :
     \E c \in {S_echoHi, Redirected(S_echoHi, OP_gt, W_o),
               Redirected(S_echoHi, OP_gg, W_o)},
        op \in {OP_2gt, OP_2gg} : e.l = Redirected(c, op, W_f)}

EchoSessionLines ==
  {e.l : e \in EchoStderrLines} \cup {S_cdBin, Redirected(S_echoHi, OP_gg, W_f)}

NextEcho ==
  \/ Prompt
  \/ \E l \in EchoSessionLines : ReadLine(l)
  \/ EndOfInput

SpecEcho == Init /\ [][NextEcho]_vars

\* the step changes no file but those of S, which it may create
OnlyFilesChanged(S) ==
  /\ DOMAIN fs' \subseteq DOMAIN fs \cup S
  /\ \A q \in DOMAIN fs \ S : q \in DOMAIN fs' /\ fs'[q] = fs[q]

\* the content of file a once c was written to it, appending or not
Written(a, append, c) ==
  (IF append /\ Content(fs, a) # None THEN Content(fs, a) ELSE <<>>) \o c

\* the stated behaviour of a step that handles the echo line e
EchoStderrStep(e) ==
  /\ pc' = "prompt"
  /\ Content(fs', AbsPath(cwd, W_f)) = Written(AbsPath(cwd, W_f), e.err_append, <<>>)
  /\ IF e.out
     THEN /\ term' = <<>>
          /\ Content(fs', AbsPath(cwd, W_o)) =
               Written(AbsPath(cwd, W_o), e.out_append, S_hiNL)
          /\ OnlyFilesChanged({AbsPath(cwd, W_f), AbsPath(cwd, W_o)})
     ELSE /\ term' = S_hiNL
          /\ OnlyFilesChanged({AbsPath(cwd, W_f)})

\* C14: an echo line with a stderr redirection leaves the stderr target
\* existing and writes nothing to it (its previous content is kept under 2>>),
\* and the text of echo goes only to the stdout target or the terminal.
C14_EchoStderrTarget ==
  [][\A e \in EchoStderrLines :
       (nlines' = nlines + 1 /\ line' = e.l) => EchoStderrStep(e)]_vars

\* the echo lines whose stderr operator comes last are as C14 says
C14_StderrOperatorLast ==
  [][\A e \in StderrLast :
       (nlines' = nlines + 1 /\ line' = e.l) => EchoStderrStep(e)]_vars

\* echo hi >> o 2>> f kept the content of f and appended hi to o
C14_KeptAndAppended ==
  /\ nlines = 2 /\ pc = "prompt" /\ cwd = S_work
  /\ line = Redirected(Redirected(S_echoHi, OP_gg, W_o), OP_2gg, W_f)
  /\ Content(fs, PathJoin(S_work, W_f)) = <<"o", "l", "d", NL>>
  /\ Content(fs, PathJoin(S_work, W_o)) = S_hiNL \o S_hiNL

\* echo hi 2> f > o left no file f and wrote the operator into o
C14_StderrFirst ==
  /\ nlines = 1 /\ pc = "prompt"
  /\ line = Redirected(Redirected(S_echoHi, OP_2gt, W_f), OP_gt, W_o)
  /\ Content(fs, PathJoin(S_work, W_f)) = None
  /\ Content(fs, PathJoin(S_work, W_o)) = <<"h","i"," ","2",">"," ","f">> \o <<NL>>
  /\ Content(fs, PathJoin(S_work, <<"f"," ",">"," ","o">>)) = <<>>

\* ------------------------------------------------------------------------
\* Sessions of external command lines whose name does not resolve
\* ------------------------------------------------------------------------

S_nosuchArgs == W_nosuch \o <<" ","-","l"," ","'","a"," ","b","'">>

\* command lines whose argv[0] is on no directory of ReplPath, with the
\* name, whether stderr is redirected (to f) and whether its operator appends
UnresolvedLines ==
  { [l |-> W_nosuch, name |-> W_nosuch, err |-> FALSE, append |-> FALSE],
    [l |-> S_nosuchArgs, name |-> W_nosuch, err |-> FALSE, append |-> FALSE],
    [l |-> W_f, name |-> W_f, err |-> FALSE, append |-> FALSE],
    [l |-> Redirected(W_nosuch, OP_gt, W_o),
     name |-> W_nosuch, err |-> FALSE, append |-> FALSE],
    [l |-> Redirected(W_nosuch, OP_2gt, W_f),
     name |-> W_nosuch, err |-> TRUE, append |-> FALSE],
    [l |-> Redirected(S_nosuchArgs, OP_2gg, W_f),
     name |-> W_nosuch, err |-> TRUE, append |-> TRUE],
    [l |-> Redirected(Redirected(W_nosuch, OP_gt, W_o), OP_2gt, W_f),
     name |-> W_nosuch, err |-> TRUE, append |-> FALSE],
    [l |-> Redirected(Redirected(W_nosuch, OP_gg, W_o), OP_2gg, W_f),
     name |-> W_nosuch, err |-> TRUE, append |-> TRUE],
    [l |-> Redirected(Redirected(W_nosuch, OP_2gt, W_f), OP_gt, W_o),
     name |-> W_nosuch, err |-> TRUE, append |-> FALSE] }

\* the line of UnresolvedLines whose stderr operator comes before the stdout
\* operator
S_nosuchStderrFirst == Redirected(Redirected(W_nosuch, OP_2gt, W_f), OP_gt, W_o)

UnresolvedSessionLines ==
  {u.l : u \in UnresolvedLines}
    \cup {S_cdBin, W_ls, Redirected(S_echoHi, OP_gg, W_o)}

NextUnresolved ==
  \/ Prompt
  \/ \E l \in UnresolvedSessionLines : ReadLine(l)
  \/ EndOfInput

SpecUnresolved == Init /\ [][NextUnresolved]_vars

NotFoundMessage(name) == name \o <<":"," ","c","o","m","m","a","n","d"," ","n","o","t"," ","f","o","u","n","d">> \o <<NL>>

\* the stated behaviour of a step that handles the unresolved line u
UnresolvedStep(u) ==
  /\ pc' = "prompt"
  /\ launched' = <<>>
  /\ Content(fs', AbsPath(cwd, W_o)) = Content(fs, AbsPath(cwd, W_o))
  /\ IF u.err
     THEN /\ term' = <<>>
          /\ Content(fs', AbsPath(cwd, W_f)) =
               Written(AbsPath(cwd, W_f), u.append, NotFoundMessage(u.name))
          /\ OnlyFilesChanged({AbsPath(cwd, W_f)})
     ELSE /\ term' = NotFoundMessage(u.name)
          /\ fs' = fs

\* C15: an external command line whose argv[0] does not resolve launches no
\* process and writes the one line <name>: command not found to the stderr
\* target (appended or truncated per its operator) when the line has one, to
\* the terminal otherwise, and never to the stdout target.
C15_CommandNotFound ==
  [][\A u \in UnresolvedLines :
       (nlines' = nlines + 1 /\ line' = u.l) => UnresolvedStep(u)]_vars

\* the unresolved lines other than the one with the stderr operator first
\* are as C15 says
C15_StderrOperatorLast ==
  [][\A u \in UnresolvedLines :
       (nlines' = nlines + 1 /\ line' = u.l /\ u.l # S_nosuchStderrFirst)
         => UnresolvedStep(u)]_vars

\* nosuch >> o 2>> f appended the diagnostic to f and left o as echo made it
C15_AppendedToStderrTarget ==
  /\ nlines = 2 /\ pc = "prompt" /\ cwd = S_work /\ launched = <<>>
  /\ line = Redirected(Redirected(W_nosuch, OP_gg, W_o), OP_2gg, W_f)
  /\ Content(fs, PathJoin(S_work, W_f)) = <<"o", "l", "d", NL>> \o NotFoundMessage(W_nosuch)
  /\ Content(fs, PathJoin(S_work, W_o)) = S_hiNL

\* nosuch 2> f > o wrote the diagnostic to the file named f > o
C15_StderrFirst ==
  /\ nlines = 1 /\ pc = "prompt" /\ line = S_nosuchStderrFirst
  /\ Content(fs, PathJoin(S_work, W_f)) = None
  /\ Content(fs, PathJoin(S_work, <<"f"," ",">"," ","o">>)) = NotFoundMessage(W_nosuch)

\* ------------------------------------------------------------------------
\* Sessions of lines whose redirection targets lie in missing directories
\* ------------------------------------------------------------------------

S_new        == <<"n","e","w">>
S_newF       == <<"n","e","w","/","f">>
S_abF        == <<"a","/","b","/","f">>
S_secretNew  == <<"/","s","e","c","r","e","t","/","n","e","w">>
S_secretNewF == <<"/","s","e","c","r","e","t","/","n","e","w","/","f">>
S_binLsX     == <<"/","b","i","n","/","l","s","/","x">>
S_binLsXF    == <<"/","b","i","n","/","l","s","/","x","/","f">>
S_exit3      == S_exitSp \o <<"3">>

L_echoNew       == Redirected(S_echoHi, OP_gt, S_newF)
L_echoAB        == Redirected(S_echoHi, OP_gg, S_abF)
L_echoBoth      == Redirected(Redirected(S_echoHi, OP_gt, W_o), OP_2gt, S_newF)
L_echoErrFirst  == Redirected(Redirected(S_echoHi, OP_2gt, <<"a","/","e">>), OP_gt, S_newF)
L_lsNew         == Redirected(W_ls, OP_gt, S_newF)
L_nosuchNew     == Redirected(W_nosuch, OP_2gt, S_newF)
L_cdNew         == Redirected(S_cdBin, OP_gt, S_newF)
L_exitNew       == Redirected(S_exit3, OP_gt, S_newF)
L_cdSecret      == Redirected(S_cdBin, OP_gt, S_secretNewF)
L_lsBlocked     == Redirected(W_ls, OP_gt, S_binLsXF)
L_nosuchSecret  == Redirected(W_nosuch, OP_gt, S_secretNewF)
L_exitSecret    == Redirected(S_exit3, OP_2gt, S_secretNewF)
L_echoSecret    == Redirected(S_echoHi, OP_gt, S_secretNewF)
L_echoSecretNew == Redirected(Redirected(S_echoHi, OP_gt, S_secretNewF), OP_2gt, S_newF)

\* the lines with the parent directories of their targets: made are those the
\* line has to create (as the line names them), failed is the one that cannot
\* be created (None when all can)
MissingDirLines ==
  { [l |-> L_echoNew, made |-> {S_new}, failed |-> None],
    [l |-> L_echoAB, made |-> {<<"a">>, <<"a","/","b">>}, failed |-> None],
    [l |-> L_echoBoth, made |-> {S_new}, failed |-> None],
    [l |-> L_echoErrFirst, made |-> {<<"a">>, S_new}, failed |-> None],
    [l |-> L_lsNew, made |-> {S_new}, failed |-> None],
    [l |-> L_nosuchNew, made |-> {S_new}, failed |-> None],
    [l |-> L_cdNew, made |-> {S_new}, failed |-> None],
    [l |-> L_exitNew, made |-> {S_new}, failed |-> None],
    [l |-> L_cdSecret, made |-> {}, failed |-> S_secretNew],
    [l |-> L_lsBlocked, made |-> {}, failed |-> S_binLsX],
    [l |-> L_nosuchSecret, made |-> {}, failed |-> S_secretNew],
    [l |-> L_exitSecret, made |-> {}, failed |-> S_secretNew],
    [l |-> L_echoSecret, made |-> {}, failed |-> S_secretNew],
    [l |-> L_echoSecretNew, made |-> {S_new}, failed |-> S_secretNew] }

NextDirs ==
  \/ Prompt
  \/ \E l \in {m.l : m \in MissingDirLines} : ReadLine(l)
  \/ EndOfInput

SpecDirs == Init /\ [][NextDirs]_vars

\* the start of the report of a directory that could not be created
DirectoryReport(directory) ==
  <<"E","r","r","o","r"," ","c","r","e","a","t","i","n","g"," ","d","i","r","e","c","t","o","r","y"," ">> \o directory \o <<":", " ">>

\* the directories of m exist after the step, under the working directory the
\* line was read in, and the step reports the directory it could not create
\* before anything else it writes
DirsStep(m) ==
  /\ \A a \in m.made : IsDir(fs', cwd, a)
  /\ IF m.failed = None
     THEN ~StartsWith(term', <<"E","r","r","o","r"," ","c","r","e","a","t","i","n","g"," ","d","i","r","e","c","t","o","r","y"," ">>)
     ELSE /\ StartsWith(term', DirectoryReport(m.failed))
          /\ ~Exists(fs', cwd, m.failed)

\* what shows, line by line, that the command ran after the directories were
\* dealt with: the target was written in the new directory, the directory
\* was made where the line was read, the command had its effect after the
\* report
CommandStep ==
  /\ line' = L_echoNew =>
       pc' = "prompt" /\ Content(fs', AbsPath(cwd, S_newF)) = S_hiNL
  /\ line' = L_echoAB =>
       /\ pc' = "prompt"
       /\ Content(fs', AbsPath(cwd, S_abF)) = Written(AbsPath(cwd, S_abF), TRUE, S_hiNL)
  /\ line' = L_echoBoth =>
       /\ pc' = "prompt"
       /\ Content(fs', AbsPath(cwd, S_newF)) = <<>>
       /\ Content(fs', AbsPath(cwd, W_o)) = S_hiNL
  /\ line' = L_lsNew =>
       /\ pc' = "prompt"
       /\ \/ launched' = <<W_ls>> /\ Content(fs', AbsPath(cwd, S_newF)) # None
          \/ launched' = <<>> /\ StartsWith(term', S_ErrorExecuting)
  /\ line' = L_nosuchNew =>
       pc' = "prompt" /\ Content(fs', AbsPath(cwd, S_newF)) = NotFoundMessage(W_nosuch)
  /\ line' = L_cdNew => pc' = "prompt" /\ cwd' = S_bin
  /\ line' = L_exitNew => pc' = "exited" /\ exit_code' = 3
  /\ line' = L_cdSecret => pc' = "prompt" /\ cwd' = S_bin
  /\ line' = L_lsBlocked =>
       /\ pc' = "prompt"
       /\ StartsWith(term', DirectoryReport(S_binLsX) \o <<"NotADirectoryError", NL>>)
       /\ \E k \in 1..Len(term') :
            HasAt(term', k, S_ErrorExecuting)
  /\ line' = L_nosuchSecret =>
       /\ pc' = "prompt"
       /\ \E rest \in {<<"PermissionError", NL>>} :
            term' = DirectoryReport(S_secretNew) \o rest \o NotFoundMessage(W_nosuch)
  /\ line' = L_exitSecret => pc' = "exited" /\ exit_code' = 3
  /\ line' = L_echoSecretNew => Content(fs', AbsPath(cwd, S_newF)) = <<>>

\* C16: the missing parent directories of the redirection targets of a line
\* are made before its command runs or a target is opened, and a directory
\* that cannot be made is reported and the line is processed on.
C16_DirectoriesFirst ==
  [][nlines' = nlines + 1 =>
       /\ \A m \in MissingDirLines : line' = m.l => DirsStep(m)
       /\ CommandStep]_vars

\* C16 witness: after cd /bin > /secret/new/f reported the directory and
\* changed to /bin, echo hi >> a/b/f made /bin/a and /bin/a/b and wrote the file
C16_Witness ==
  /\ nlines = 2 /\ pc = "prompt" /\ cwd = S_bin /\ line = L_echoAB
  /\ IsDir(fs, S_bin, <<"a","/","b">>)
  /\ Content(fs, <<"/","b","i","n","/","a","/","b","/","f">>) = S_hiNL
  /\ ~Exists(fs, S_bin, S_secretNew)

\* ------------------------------------------------------------------------
\* The longest common extension of find_completions (specification
\* SpecComplete)
\* ------------------------------------------------------------------------

\* lp starts with text, is a prefix of every candidate of S, and no candidate
\* prefix one character longer is a prefix of every candidate
IsLongestExtension(lp, text, S) ==
  /\ StartsWith(lp, text)
  /\ IsPrefixOfAll(lp, S)
  /\ \A c \in S :
       Len(c) > Len(lp) => ~IsPrefixOfAll(Slice(c, 0, Len(lp) + 1), S)

\* C17: for a text with candidates, the longest common extension that
\* find_completions returns starts with the text, is a prefix of every
\* candidate, and cannot be extended by one character.
C17_LongestCommonExtension ==
  (req.text # None /\ CandidateSet(req.text) # {}) =>
    IsLongestExtension(find_completions(fs, cwd, path_env, req.text).longest_prefix,
                       req.text, CandidateSet(req.text))

\* C17 witness: attempt 1 on x with the candidates xyz_a and xyz_b, whose
\* longest common extension xyz_ is longer than the text and shorter than
\* both candidates
C17_Witness ==
  /\ req.text = <<"x">> /\ req.state = 1
  /\ CandidateSet(<<"x">>) = {W_xyz_a, W_xyz_b}
  /\ find_completions(fs, cwd, path_env, <<"x">>).longest_prefix = W_xyz_

\* ------------------------------------------------------------------------
\* The stored candidates of complete (specification SpecComplete)
\* ------------------------------------------------------------------------

\* the last call returned at lines 184-197, before any stored value is read
AnsweredBeforeLookup ==
  /\ req.state = 0
  /\ req.text \in {W_ech, W_exi, W_xyz_quz_qux_bar, W_echo, W_exit, W_type, W_pwd, W_cd}

\* the stored candidates and extension are those of text
StoredFor(text) ==
  /\ last_text = text
  /\ {completion_matches[n] : n \in DOMAIN completion_matches} = CandidateSet(text)
  /\ longest_prefix = IF CandidateSet(text) = {} THEN <<>>
                      ELSE LongestCommonExtension(CandidateSet(text))

\* C18: in the calls readline makes (each request starts at attempt index 0
\* and the further attempts carry its text), a call that reads the stored
\* candidates or the stored extension reads those computed for its own text,
\* and what it returns extends that text.
C18_StoredForCurrentText ==
  (req.text # None /\ ~AnsweredBeforeLookup) =>
    /\ StoredFor(req.text)
    /\ req.ret # None => StartsWith(req.ret, req.text)

\* C18 witness: attempt 1 on ech, whose attempt 0 was answered without a
\* lookup while candidates of an earlier text were stored, found the
\* candidates of ech
C18_Witness ==
  /\ req.text = W_ech /\ req.state = 1 /\ tab_pressed
  /\ last_text = W_ech /\ CandidateSet(W_ech) = {W_echo}
  /\ completion_matches[1] = W_echo

\* ------------------------------------------------------------------------
\* Sessions of lines whose first token is a builtin name
\* ------------------------------------------------------------------------

S_pwdX == W_pwd \o SP \o <<"x">>

\* the builtin names alone, and pwd with an argument
BareBuiltinLines == {W_echo, W_type, W_cd, S_pwdX}

\* builtin lines in the form the dispatcher tests for
UsualBuiltinLines ==
  { S_echoHi, S_typeSp \o W_ls, S_typeSp \o W_echo, W_pwd, S_cdBin, S_cdNodir,
    W_exit, S_exit3, Redirected(S_echoHi, OP_gg, W_f) }

BuiltinFirstLines == BareBuiltinLines \cup UsualBuiltinLines

NextBuiltin ==
  \/ Prompt
  \/ \E l \in BuiltinFirstLines : ReadLine(l)
  \/ EndOfInput

SpecBuiltin == Init /\ [][NextBuiltin]_vars

\* the step neither started a program nor reported a name as not found on
\* the search path
NotTakenForExternal ==
  /\ launched' = <<>>
  /\ ~StartsWith(term', S_ErrorExecuting)
  /\ \A k \in 0..Len(term') : ~HasAt(term', k, <<":"," ","c","o","m","m","a","n","d"," ","n","o","t"," ","f","o","u","n","d">>)

\* C19: a line whose first token is echo, exit, type, pwd or cd is handled
\* by the builtin and never resolved on the search path or launched as a
\* program, also the bare echo, type and cd and pwd with arguments.
C19_BuiltinNeverExternal ==
  [][(nlines' = nlines + 1 /\ line' \in BuiltinFirstLines)
       => NotTakenForExternal]_vars

\* the builtin lines in the form the dispatcher tests for are never taken
\* for external commands
C19_UsualForms ==
  [][(nlines' = nlines + 1 /\ line' \in UsualBuiltinLines)
       => NotTakenForExternal]_vars

\* the bare echo started the program /bin/echo
C19_EchoLaunched ==
  /\ nlines = 1 /\ line = W_echo /\ pc = "prompt" /\ launched = <<W_echo>>

\* the bare cd was looked up on the search path and reported as not found
C19_CdNotFound ==
  /\ nlines = 1 /\ line = W_cd /\ pc = "prompt" /\ cwd = S_work
  /\ term = NotFoundMessage(W_cd)

\* ------------------------------------------------------------------------
\* Sessions of echo lines with quoted arguments
\* ------------------------------------------------------------------------

\* echo lines with a redirection operator inside a quoted argument, and the
\* text of the argument
QuotedOperatorLines ==
  { [l |-> S_echoSp \o <<"'","a"," ",">"," ","b","'">>, text |-> <<"a"," ",">"," ","b">>],
    [l |-> S_echoSp \o <<"\"","a"," ",">"," ","b","\"">>, text |-> <<"a"," ",">"," ","b">>],
    [l |-> S_echoSp \o <<"'","a",">","b","'">>, text |-> <<"a",">","b">>],
    [l |-> S_echoSp \o <<"'","a"," ","2",">"," ","b","'"," ","c">>, text |-> <<"a"," ","2",">"," ","b"," ","c">>],
    [l |-> S_echoSp \o <<"\"","a"," ",">",">"," ","n","e","w","/","b","\"">>, text |-> <<"a"," ",">",">"," ","n","e","w","/","b">>] }

\* echo lines whose quoted arguments hold no operator
QuotedPlainLines ==
  { [l |-> S_echoSp \o <<"'","a"," "," ","b","'">>, text |-> <<"a"," "," ","b">>],
    [l |-> S_echoSp \o <<"\"","a"," ","b","\""," ","'","c","'">>, text |-> <<"a"," ","b"," ","c">>] }

S_echoQuotedToF == Redirected(S_echoSp \o <<"'","a"," "," ","b","'">>, OP_gg, W_f)

QuotedSessionLines ==
  {q.l : q \in QuotedOperatorLines \cup QuotedPlainLines}
    \cup {S_echoQuotedToF, S_cdBin, S_cdTilde, W_pwd}

NextQuoted ==
  \/ Prompt
  \/ \E l \in QuotedSessionLines : ReadLine(l)
  \/ EndOfInput

SpecQuoted == Init /\ [][NextQuoted]_vars

\* the step took no redirection from the line, changed no file or directory
\* and wrote the text of the quoted arguments q.text to the terminal
QuotedStep(q) ==
  /\ redir'.stdout_file = None /\ redir'.stderr_file = None
  /\ fs' = fs
  /\ pc' = "prompt"
  /\ term' = q.text \o <<NL>>

\* C20: a redirection operator inside a quoted argument is part of the
\* argument: no target is extracted for it, no file or directory is made,
\* and echo writes the quoted text unchanged.
C20_QuotedOperator ==
  [][\A q \in QuotedOperatorLines :
       (nlines' = nlines + 1 /\ line' = q.l) => QuotedStep(q)]_vars

\* quoted arguments without an operator are written unchanged
C20_QuotedPlain ==
  [][\A q \in QuotedPlainLines :
       (nlines' = nlines + 1 /\ line' = q.l) => QuotedStep(q)]_vars

\* echo "a >> new/b" made the directory new, took b" for a target and ended
\* the loop on the quote left open in the command text
C20_SplitInsideQuotes ==
  /\ nlines = 1 /\ line = S_echoSp \o <<"\"","a"," ",">",">"," ","n","e","w","/","b","\"">>
  /\ redir.cmd = S_echoSp \o <<"\"","a">> /\ redir.stdout_file = <<"n","e","w","/","b","\"">>
  /\ IsDir(fs, S_work, S_new)
  /\ pc = "crashed" /\ raised = "ValueError"

====
